---- MODULE Spec2Model ----
(***************************************************************************)
(* dreamfs: distributed file-metadata indexer.                             *)
(*                                                                         *)
(* The module models the record codec (pkg/metadata), the bbolt-backed     *)
(* store and its write cache (pkg/storage), the swarm delegate             *)
(* (pkg/network) and the index command (cmd/indexer, pkg/fileprocessor).   *)
(*                                                                         *)
(* The specifications share the data layer:                                *)
(*   SpecSwarm  two peers, their stores, gossip and push/pull exchange     *)
(*   SpecIndex  the index command: StartSwarm, then the directory walk     *)
(*   SpecCache  one store with its CacheWriter, direct Puts and readers    *)
(*   SpecQueue  the CacheWriter with callers waiting at their send         *)
(*   SpecServe  the delegate callbacks and GET /_changes on one host       *)
(*   SpecPeers  GET /peerlist requests served concurrently                 *)
(*   SpecDisc   StartSwarm's peer discovery                                *)
(*   SpecCodec  MarshalJSON followed by UnmarshalJSON                      *)
(*   SpecFp     FingerprintFile on one file                                *)
(*   SpecCanon  CanonicalizePath on one path and mount table               *)
(*   SpecReindex      the index command run twice on the same database     *)
(*   SpecProcessFile  one call of ProcessFile                              *)
(*   SpecFlushNow     the CacheWriter with a caller of FlushNow            *)
(***************************************************************************)
EXTENDS Integers, Sequences, FiniteSets, TLC

(***************************************************************************)
(* int64 values.  TLC's integers are 32 bits wide, so an int64 is kept as  *)
(* three 21-bit limbs <<a, b, c>> standing for a*2^42 + b*2^21 + c.        *)
(***************************************************************************)
Limb == 2^21

I64(a, b, c) == <<a, b, c>>

Zero64 == I64(0, 0, 0)

\* Number of significant bits of a limb value x < 2^22.
BitLen(x) == IF x = 0 THEN 0 ELSE CHOOSE k \in 1..22 : 2^(k-1) <= x /\ x < 2^k

\* Number of significant bits of an int64 (non-negative).
BitLen64(n) ==
    IF n[1] > 0 THEN 42 + BitLen(n[1])
    ELSE IF n[2] > 0 THEN 21 + BitLen(n[2])
    ELSE BitLen(n[3])

\* Carry propagation after the low limb was rounded up to 2^21.
Normalize64(n) ==
    LET c1 == n[3] % Limb
        b0 == n[2] + (n[3] \div Limb)
        b1 == b0 % Limb
        a1 == n[1] + (b0 \div Limb)
    IN  I64(a1, b1, c1)

\* Round x to the nearest multiple of step, ties to the even multiple.
RoundHalfEven(x, step) ==
    LET q == x \div step
        r == x % step
    IN  IF 2 * r < step THEN q * step
        ELSE IF 2 * r > step THEN (q + 1) * step
        ELSE IF q % 2 = 0 THEN q * step ELSE (q + 1) * step

\* A JSON number decoded into interface{} is a float64 (53-bit mantissa);
\* int64(size) converts it back.  Exact below 2^53, rounded above.
Float64ToInt64(n) ==
    LET e == BitLen64(n)
    IN  IF e <= 53 THEN n
        ELSE Normalize64(I64(n[1], n[2], RoundHalfEven(n[3], 2^(e - 53))))

\* Bit i (0 = least significant) of an int64.
BitAt(n, i) == (n[3 - (i \div 21)] \div 2^(i % 21)) % 2

\* Hex digit k (0 = least significant) of an int64.
HexDigitAt(n, k) ==
    BitAt(n, 4*k) + 2 * BitAt(n, 4*k + 1) + 4 * BitAt(n, 4*k + 2)
      + (IF k = 15 THEN 0 ELSE 8 * BitAt(n, 4*k + 3))

HexChars == <<"0", "1", "2", "3", "4", "5", "6", "7",
              "8", "9", "a", "b", "c", "d", "e", "f">>

RECURSIVE HexFrom(_, _)
HexFrom(n, k) ==
    IF k < 0 THEN ""
    ELSE HexChars[HexDigitAt(n, k) + 1] \o HexFrom(n, k - 1)

\* strconv.FormatInt(bytes, 16): lowercase, no prefix, no leading zeros.
FormatInt16(n) ==
    IF n = Zero64 THEN "0"
    ELSE HexFrom(n, ((BitLen64(n) + 3) \div 4) - 1)

(***************************************************************************)
(* JSON values, objects and blobs.                                         *)
(***************************************************************************)
JStr(s) == [t |-> "string", s |-> s, n |-> Zero64]

JNum(n) == [t |-> "number", s |-> "", n |-> n]

KnownKeys == {"_id", "idString", "hostID", "filePath", "size", "modTime", "blake3"}

\* A JSON value as json.Unmarshal hands it over in a map[string]interface{}:
\* every number has become a float64.
AsInterface(v) == IF v.t = "number" THEN JNum(Float64ToInt64(v.n)) ELSE v

\* The type assertions of UnmarshalJSON: v.(string), v.(float64).
StringOr(obj, k, dflt) ==
    IF k \in DOMAIN obj /\ obj[k].t = "string" THEN obj[k].s ELSE dflt

Int64Or(obj, k, dflt) ==
    IF k \in DOMAIN obj /\ obj[k].t = "number" THEN Float64ToInt64(obj[k].n) ELSE dflt

\* FileMetadata.UnmarshalJSON on a JSON object.
UnmarshalJSON(obj) ==
    [ id       |-> StringOr(obj, "_id", ""),
      idString |-> StringOr(obj, "idString", ""),
      hostID   |-> StringOr(obj, "hostID", ""),
      filePath |-> StringOr(obj, "filePath", ""),
      size     |-> Int64Or(obj, "size", Zero64),
      modTime  |-> StringOr(obj, "modTime", ""),
      blake3   |-> StringOr(obj, "blake3", ""),
      extra    |-> [k \in (DOMAIN obj) \ KnownKeys |-> AsInterface(obj[k])] ]

\* The seven tagged fields of the struct.
KnownFields(fm) ==
    [k \in KnownKeys |->
        CASE k = "_id"      -> JStr(fm.id)
          [] k = "idString" -> JStr(fm.idString)
          [] k = "hostID"   -> JStr(fm.hostID)
          [] k = "filePath" -> JStr(fm.filePath)
          [] k = "size"     -> JNum(fm.size)
          [] k = "modTime"  -> JStr(fm.modTime)
          [] k = "blake3"   -> JStr(fm.blake3)]

\* FileMetadata.MarshalJSON (pointer receiver): known fields, then every
\* entry of Extra whose key is not a known field.
MarshalJSON(fm) ==
    [k \in KnownKeys \cup DOMAIN fm.extra |->
        IF k \in KnownKeys THEN KnownFields(fm)[k] ELSE fm.extra[k]]

\* json.Marshal(meta) on a FileMetadata VALUE: the value is not addressable,
\* so the pointer-receiver MarshalJSON is not used and the struct tags
\* decide: the seven fields, Extra (`json:"-"`) left out.
MarshalValue(fm) == KnownFields(fm)

\* Blobs on the wire / in the store.
ObjBlob(obj) == [kind |-> "object", objs |-> <<obj>>]

ArrBlob(objs) == [kind |-> "array", objs |-> objs]

\* Bytes that are not JSON (also the nil blob LocalState returns on error).
BadBlob == [kind |-> "invalid", objs |-> <<>>]

\* The JSON text null.
NullBlob == [kind |-> "null", objs |-> <<>>]

(***************************************************************************)
(* The bbolt bucket "metadata" and PersistentStore.                        *)
(* A bucket is a function from keys (record ids) to stored values (the     *)
(* JSON objects json.Marshal produced).                                    *)
(***************************************************************************)
EmptyBucket == <<>>

\* Bucket.Put inside a write transaction: an empty key is refused
\* (ErrKeyRequired), any other key is inserted or overwritten.
BucketPutKeepsExisting(b, key, value) ==
    IF key = "" THEN [err |-> TRUE, b |-> b]
    ELSE IF key \in DOMAIN b THEN [err |-> FALSE, b |-> b]
    ELSE [err |-> FALSE, b |-> (key :> value) @@ b]

BucketPut(b, key, value) ==
    IF key = "" THEN [err |-> TRUE, b |-> b]
    ELSE [err |-> FALSE, b |-> (key :> value) @@ b]

\* PersistentStore.Put: one db.Update transaction around one Bucket.Put;
\* an error rolls the transaction back.
Put(st, meta) ==
    LET r == BucketPut(st, meta.id, MarshalValue(meta))
    IN  IF r.err THEN [err |-> TRUE, st |-> st] ELSE [err |-> FALSE, st |-> r.b]

RECURSIVE SeqOfSet(_)
SeqOfSet(S) ==
    IF S = {} THEN <<>>
    ELSE LET x == CHOOSE y \in S : TRUE IN <<x>> \o SeqOfSet(S \ {x})

\* The keys of a bucket in the order Bucket.ForEach visits them (one fixed
\* total order on keys; the byte order itself is not observable here).
KeysInOrder(st) == SeqOfSet(DOMAIN st)

\* PersistentStore.GetAll: one read transaction; every stored value is
\* decoded with UnmarshalJSON into a fresh FileMetadata.
GetAll(st) ==
    LET ks == KeysInOrder(st)
    IN  [i \in 1..Len(ks) |-> UnmarshalJSON(st[ks[i]])]

\* The records GetAll returns, as a set.
View(st) == {UnmarshalJSON(st[k]) : k \in DOMAIN st}

(***************************************************************************)
(* ProcessFile's record construction.                                     *)
(***************************************************************************)
\* A mutation: an id that does not depend on the string.
GenerateUUIDIgnoresInput(data) == "uuid5()"

\* utils.GenerateUUID: version-5 UUID of the string (collision-free here).
GenerateUUID(data) == "uuid5(" \o data \o ")"

\* ProcessFile, lines 195-210: the record of a file that was stat'ed,
\* canonicalized and fingerprinted.
NewMetadata(host, f) ==
    LET idString == host \o "|" \o f.path \o "|" \o f.modTime \o "|"
                      \o FormatInt16(f.size) \o "|" \o f.blake3
    IN  [ id       |-> GenerateUUID(idString),
          idString |-> idString,
          hostID   |-> host,
          filePath |-> f.path,
          size     |-> f.size,
          modTime  |-> f.modTime,
          blake3   |-> f.blake3,
          extra    |-> <<>> ]

(***************************************************************************)
(* SwarmDelegate callbacks (pkg/network), as functions of the store.       *)
(***************************************************************************)
\* A NotifyMsg that empties the bucket when the payload cannot be decoded.
NotifyMsgDropsOnError(st, msg) ==
    IF msg.kind # "object" THEN EmptyBucket
    ELSE Put(st, UnmarshalJSON(msg.objs[1])).st

\* NotifyMsg: json.Unmarshal(msg, &meta) must see one JSON object; then Put.
\* A decode or put failure is logged and the store is left as it was.  (The
\* text null decodes to a record with an empty id, whose Put fails.)
NotifyMsgStore(st, msg) ==
    IF msg.kind # "object" THEN st
    ELSE Put(st, UnmarshalJSON(msg.objs[1])).st

\* encoding/json on a []FileMetadata: a nil slice (what GetAll returns for
\* an empty bucket, never having appended) is encoded as null, any other as
\* an array.  Slice elements are addressable, so MarshalJSON encodes them.
MarshalSlice(metas) ==
    IF metas = <<>> THEN NullBlob
    ELSE ArrBlob([i \in 1..Len(metas) |-> MarshalJSON(metas[i])])

\* LocalState: json.Marshal of the []FileMetadata GetAll returned.
LocalState(st) == MarshalSlice(GetAll(st))

RECURSIVE PutEach(_, _, _)
PutEach(st, metas, i) ==
    IF i > Len(metas) THEN st
    ELSE PutEach(Put(st, metas[i]).st, metas, i + 1)

\* A merge that replaces the local state by the remote one.
MergeReplacesState(st, buf) ==
    IF buf.kind # "array" THEN st
    ELSE PutEach(EmptyBucket, [i \in 1..Len(buf.objs) |-> UnmarshalJSON(buf.objs[i])], 1)

\* A merge that stops after the first record.
MergeFirstOnly(st, buf) ==
    IF buf.kind # "array" THEN st
    ELSE IF buf.objs = <<>> THEN st
    ELSE Put(st, UnmarshalJSON(buf.objs[1])).st

\* A merge that returns at the first Put that fails.
RECURSIVE PutUntilError(_, _, _)
PutUntilError(st, metas, i) ==
    IF i > Len(metas) \/ Put(st, metas[i]).err THEN st
    ELSE PutUntilError(Put(st, metas[i]).st, metas, i + 1)

MergeStopsAtError(st, buf) ==
    IF buf.kind # "array" THEN st
    ELSE PutUntilError(st, [i \in 1..Len(buf.objs) |-> UnmarshalJSON(buf.objs[i])], 1)

\* MergeRemoteState: decode an array of records, Put each; a failed Put is
\* logged and the loop goes on.  (The text null decodes to an empty slice.)
MergeRemoteState(st, buf) ==
    IF buf.kind # "array" THEN st
    ELSE PutEach(st, [i \in 1..Len(buf.objs) |-> UnmarshalJSON(buf.objs[i])], 1)

(***************************************************************************)
(* Bounds and input pools.                                                 *)
(***************************************************************************)
\* Gossip messages that may be in flight to the two peers at one time.
MaxInFlight == 1

Peers == {"A", "B"}

Other(p) == IF p = "A" THEN "B" ELSE "A"

\* 2^53 + 1: the smallest file size a float64 cannot hold.
BigSize == I64(2^11, 0, 1)

\* The file each peer finds on its own disk (already canonicalized).
LocalFile(p) ==
    IF p = "A"
    THEN [path |-> "/home/a/x", modTime |-> "2026-01-01T00:00:00Z",
          size |-> I64(0, 0, 1000), blake3 |-> "d1"]
    ELSE [path |-> "/home/b/y", modTime |-> "2026-01-02T00:00:00Z",
          size |-> I64(0, 0, 2000), blake3 |-> "d2"]

\* Records observed by a third member of the swarm, host C.
RecC1 ==
    NewMetadata("hostC", [path |-> "nas:/export:/z", modTime |-> "2026-01-03T00:00:00Z",
                          size |-> BigSize, blake3 |-> "d3"])

\* The same id with other contents (sent by a member running another build).
RecC2 == [RecC1 EXCEPT !.blake3 = "d4", !.size = I64(0, 0, 3000)]

\* With an extension entry.
RecC3 == [RecC2 EXCEPT !.extra = ("tag" :> JStr("a"))]

\* A record without an id.
RecNoId == [RecC2 EXCEPT !.id = ""]

\* What the membership library may deliver to NotifyMsg.
MsgPool ==
    { ObjBlob(MarshalValue(RecC1)), ObjBlob(MarshalValue(RecC2)),
      ObjBlob(MarshalJSON(RecC3)), ObjBlob(MarshalValue(RecNoId)), BadBlob }

(***************************************************************************)
(* State.                                                                  *)
(***************************************************************************)
VARIABLES
    HostID,     \* utils.HostID of each peer's process
    store,      \* each peer's bucket "metadata"
    net,        \* gossip messages in flight, per destination
    xinit,      \* initiator of the push/pull in progress, or "none"
    snap,       \* the LocalState blob each side sent in this push/pull
    snapTaken,  \* the peers whose LocalState has run in this push/pull
    merged,     \* the peers whose MergeRemoteState has run in this push/pull
    view0,      \* history: what GetAll returned when the snapshot was taken
    xClean,     \* history: no other write happened during this push/pull
    ipc,               \* index command: where indexCmd.Run stands
    swarmFlag,         \* viper.GetBool("swarm")
    mainSwarmDelegate, \* package main's global swarmDelegate
    fpSwarmDelegate,   \* package fileprocessor's global swarmDelegate
    broadcasts,        \* the delegate's TransmitLimitedQueue
    todo,              \* files the walk has not visited yet
    cancelled,         \* ctx.Done() is closed
    putLog,            \* history: records ProcessFile has Put
    walk,              \* ProcessAllDirectories: phase, loop indexes, subdirs, filesInDir
    pf,                \* the ProcessFile call in progress: its file and where it stands
    cancelState,       \* history: what was unprocessed and in flight when ctx was cancelled
    startedLate,       \* history: files whose processing began after the cancellation
    fileErrs,          \* history: files whose ProcessFile returned an error
    dirErrs,           \* history: directories that could not be read, with the phase
    nPut,              \* history: per file, the ProcessFile calls that fingerprinted and Put it
    ch,         \* CacheWriter.ch, the buffered channel of records
    batch,      \* the worker's in-memory batch
    timer,      \* the flushInterval timer: "armed" or "fired" (value in timer.C)
    wpc,        \* worker: "off", "select", "flush", "stopped"
    trigger,    \* the select case that started the flush in progress
    tx,         \* the flush's write transaction
    quit,       \* CacheWriter.quit is closed
    wg,         \* CacheWriter.wg's counter
    cpc,        \* caller of Close: "idle", "called", "waiting", "returned"
    nWrites,    \* Write calls that have returned
    written,    \* history: records whose Write returned before Close was called
    lastFlush,  \* history: outcome of the last flush and the Puts it rolled back
    lastWrite,  \* history: per id, the record of the last committed write
    readResult, \* the last GetAll: its result, and (history) the committed bucket then
    wr,         \* the Write call whose send on cw.ch has not completed: <<>> or <<record>>
    fn,         \* the FlushNow call that is followed: where it is, and (history) the records written before it
    peerList,      \* network.peerList, the in-memory peer registry
    peerListMutex, \* the request holding network.peerListMutex, or "none"
    req,           \* GET /peerlist requests being served, per connection
    nReq,          \* requests accepted so far
    lastCall,      \* history: the last delegate callback or /_changes request
    badSeen,       \* history: an undecodable payload was delivered
    cfg,           \* viper: peerListURL set, stealth, peers set
    spc,           \* StartSwarm: where it stands
    ml,            \* the memberlist handle: "nil" or "created"
    discovered,    \* mDNS: addresses collected when len(discovered) is read
    mdnsServer,    \* the *mdns.Server the shutdown goroutine holds
    ops,           \* history: discovery operations StartSwarm has run
    startResult,   \* what StartSwarm returned
    crashed,       \* the process died of a panic
    delivered,     \* history: the AddrV4 of the entries mdns.Query sent on entriesCh
    fm,            \* codec: the FileMetadata handed to MarshalJSON
    enc,           \* codec: the JSON object MarshalJSON returned
    dec,           \* codec: the FileMetadata UnmarshalJSON filled from enc
    mpc,           \* codec: "off", "new", "encoded", "decoded"
    fbytes,        \* FingerprintFile: the file's contents
    fsize,         \* FingerprintFile: info.Size()
    fdata,         \* FingerprintFile: data, the bytes to be hashed
    fpc,           \* FingerprintFile: where the call stands
    fret,          \* FingerprintFile: what it returned
    fshort,        \* history: a read delivered fewer bytes than asked for
    goos,          \* runtime.GOOS
    partitions,    \* what GetPartitions returns: the mount table, or an error
    absPath,       \* the path handed to CanonicalizePath
    canon          \* the results of CanonicalizePath, applied to absPath and then to its own result

swarmVars == <<HostID, store, net, xinit, snap, snapTaken, merged, view0, xClean>>

\* swarmVars without the stores.
swarmRest == <<HostID, net, xinit, snap, snapTaken, merged, view0, xClean>>

indexVars == <<ipc, swarmFlag, mainSwarmDelegate, fpSwarmDelegate, broadcasts,
               todo, cancelled, putLog, walk, pf, cancelState, startedLate, fileErrs,
               dirErrs, nPut>>

\* The walk's variables, for the frames of the actions outside the walk.
walkVars == <<walk, pf, cancelState, startedLate, fileErrs, dirErrs, nPut>>

cacheVars == <<ch, batch, timer, wpc, trigger, tx, quit, wg, cpc, nWrites, written,
               lastFlush, lastWrite, readResult, wr, fn>>

serveVars == <<peerList, peerListMutex, req, nReq, lastCall, badSeen>>

discVars == <<cfg, spc, ml, discovered, mdnsServer, ops, startResult, crashed, delivered>>

codecVars == <<fm, enc, dec, mpc>>

fpVars == <<fbytes, fsize, fdata, fpc, fret, fshort>>

canonVars == <<goos, partitions, absPath, canon>>

vars == <<swarmVars, indexVars, cacheVars, serveVars, discVars, codecVars, fpVars, canonVars>>

XActive == xinit # "none"

InFlight == Cardinality(net["A"]) + Cardinality(net["B"])

\* ran: the store as each earlier run of the index command left it.
NoWalk == [phase |-> "off", i |-> 0, subdirs |-> <<>>, k |-> 0, files |-> <<>>, j |-> 0,
           ran |-> <<>>]

NoFile == [file |-> "", at |-> "none"]

NotCancelled == [fired |-> FALSE, todo |-> {}, inflight |-> ""]

NoFlushNow == [pc |-> "idle", before |-> {}]

\* ProcessAllDirectories was not called.
WalkIdle ==
    /\ walk = NoWalk
    /\ pf = NoFile
    /\ cancelState = NotCancelled
    /\ startedLate = {}
    /\ fileErrs = {}
    /\ dirErrs = {}
    /\ nPut = <<>>

\* The index command before it is started.
IndexIdle ==
    /\ ipc = "off"
    /\ swarmFlag = FALSE
    /\ mainSwarmDelegate = "nil"
    /\ fpSwarmDelegate = "nil"
    /\ broadcasts = <<>>
    /\ todo = {}
    /\ cancelled = FALSE
    /\ putLog = {}
    /\ WalkIdle

NoTx == [open |-> FALSE, data |-> EmptyBucket, i |-> 0, pre |-> EmptyBucket]

NoFlush == [res |-> "none", undone |-> 0]

NoRead == [res |-> <<>>, at |-> EmptyBucket, inTx |-> FALSE]

\* No CacheWriter was constructed.
CacheIdle ==
    /\ ch = <<>>
    /\ batch = <<>>
    /\ timer = "armed"
    /\ wpc = "off"
    /\ trigger = "none"
    /\ tx = NoTx
    /\ quit = FALSE
    /\ wg = 0
    /\ cpc = "idle"
    /\ nWrites = 0
    /\ written = {}
    /\ lastFlush = NoFlush
    /\ lastWrite = <<>>
    /\ readResult = NoRead
    /\ wr = <<>>
    /\ fn = NoFlushNow

\* The connections on which GET /peerlist requests arrive.
Conns == {"c1", "c2"}

NoReq == [pc |-> "idle", remote |-> [host |-> "", port |-> ""],
          peerAddr |-> "", found |-> FALSE, resp |-> <<>>]

NoCall == [op |-> "none", arg |-> BadBlob, pre |-> EmptyBucket, resp |-> BadBlob]

\* No HTTP request and no delegate callback has been served.
ServeIdle ==
    /\ peerList = <<>>
    /\ peerListMutex = "none"
    /\ req = [c \in Conns |-> NoReq]
    /\ nReq = 0
    /\ lastCall = NoCall
    /\ badSeen = FALSE

\* StartSwarm was not called.
DiscIdle ==
    /\ cfg = [peerListURL |-> "", stealth |-> FALSE, peers |-> <<>>]
    /\ spc = "off"
    /\ ml = "nil"
    /\ discovered = <<>>
    /\ mdnsServer = "unset"
    /\ ops = {}
    /\ startResult = "none"
    /\ crashed = FALSE
    /\ delivered = <<>>

\* No record is being encoded or decoded.
CodecIdle ==
    /\ fm = <<>>
    /\ enc = <<>>
    /\ dec = <<>>
    /\ mpc = "off"

NoDigest == [digest |-> <<>>, err |-> ""]

\* FingerprintFile was not called.
FpIdle ==
    /\ fbytes = <<>>
    /\ fsize = 0
    /\ fdata = <<>>
    /\ fpc = "off"
    /\ fret = NoDigest
    /\ fshort = FALSE

\* CanonicalizePath was not called.
CanonIdle ==
    /\ goos = ""
    /\ partitions = [err |-> FALSE, parts |-> <<>>]
    /\ absPath = ""
    /\ canon = <<>>

\* Two running peers, empty stores, no push/pull in progress.
SwarmIdle ==
    /\ HostID = [p \in Peers |-> ""]
    /\ store = [p \in Peers |-> EmptyBucket]
    /\ net = [p \in Peers |-> {}]
    /\ xinit = "none"
    /\ snap = [p \in Peers |-> BadBlob]
    /\ snapTaken = {}
    /\ merged = {}
    /\ view0 = [p \in Peers |-> {}]
    /\ xClean = TRUE

SwarmInit ==
    SwarmIdle /\ IndexIdle /\ CacheIdle /\ ServeIdle /\ DiscIdle /\ CodecIdle /\ FpIdle /\ CanonIdle

(***************************************************************************)
(* SpecSwarm actions.                                                      *)
(***************************************************************************)
\* ProcessFile with store = true on peer p: the record is Put.  (The
\* broadcast branch is guarded by the fileprocessor package's own
\* swarmDelegate, which nothing sets; see SpecIndex.)
LocalIndex(p) ==
    /\ store' = [store EXCEPT ![p] = Put(store[p], NewMetadata(HostID[p], LocalFile(p))).st]
    /\ xClean' = (xClean /\ ~XActive)
    /\ UNCHANGED <<HostID, net, xinit, snap, snapTaken, merged, view0, indexVars, cacheVars, serveVars, discVars, codecVars, fpVars, canonVars>>

\* Another member of the swarm gossips a message to p.
Gossip(p, m) ==
    /\ InFlight < MaxInFlight
    /\ m \notin net[p]
    /\ net' = [net EXCEPT ![p] = @ \cup {m}]
    /\ UNCHANGED <<HostID, store, xinit, snap, snapTaken, merged, view0, xClean, indexVars, cacheVars, serveVars, discVars, codecVars, fpVars, canonVars>>

\* The membership library hands a user message to the delegate.
NotifyMsg(p, m) ==
    /\ m \in net[p]
    /\ net' = [net EXCEPT ![p] = @ \ {m}]
    /\ store' = [store EXCEPT ![p] = NotifyMsgStore(store[p], m)]
    /\ xClean' = (xClean /\ ~XActive)
    /\ UNCHANGED <<HostID, xinit, snap, snapTaken, merged, view0, indexVars, cacheVars, serveVars, discVars, codecVars, fpVars, canonVars>>

\* Push/pull, initiator side: LocalState is taken and sent.
PushPull(a) ==
    /\ xinit = "none"
    /\ xinit' = a
    /\ snap' = [snap EXCEPT ![a] = LocalState(store[a])]
    /\ snapTaken' = {a}
    /\ view0' = [view0 EXCEPT ![a] = View(store[a])]
    /\ xClean' = TRUE
    /\ UNCHANGED <<HostID, store, net, merged, indexVars, cacheVars, serveVars, discVars, codecVars, fpVars, canonVars>>

\* Push/pull, responder side: the remote state was read, LocalState is
\* taken and sent back (before the responder merges).
PushPullReply(b) ==
    /\ xinit = Other(b)
    /\ snapTaken = {xinit}
    /\ snap' = [snap EXCEPT ![b] = LocalState(store[b])]
    /\ snapTaken' = Peers
    /\ view0' = [view0 EXCEPT ![b] = View(store[b])]
    /\ UNCHANGED <<HostID, store, net, xinit, merged, xClean, indexVars, cacheVars, serveVars, discVars, codecVars, fpVars, canonVars>>

\* Either side applies MergeRemoteState to the blob the other side sent.
Merge(p) ==
    /\ snapTaken = Peers
    /\ p \notin merged
    /\ store' = [store EXCEPT ![p] = MergeRemoteState(store[p], snap[Other(p)])]
    /\ merged' = merged \cup {p}
    /\ UNCHANGED <<HostID, net, xinit, snap, snapTaken, view0, xClean, indexVars, cacheVars, serveVars, discVars, codecVars, fpVars, canonVars>>

\* The push/pull connection is closed.
PushPullDone ==
    /\ xinit # "none"
    /\ merged = Peers
    /\ xinit' = "none"
    /\ snap' = [p \in Peers |-> BadBlob]
    /\ snapTaken' = {}
    /\ merged' = {}
    /\ view0' = [p \in Peers |-> {}]
    /\ UNCHANGED <<HostID, store, net, xClean, indexVars, cacheVars, serveVars, discVars, codecVars, fpVars, canonVars>>

SwarmNext ==
    \/ \E p \in Peers : LocalIndex(p)
    \/ \E p \in Peers, m \in MsgPool : Gossip(p, m)
    \/ \E p \in Peers, m \in MsgPool : NotifyMsg(p, m)
    \/ \E p \in Peers : PushPull(p)
    \/ \E p \in Peers : PushPullReply(p)
    \/ \E p \in Peers : Merge(p)
    \/ PushPullDone

SpecSwarm == SwarmInit /\ [][SwarmNext]_vars

(***************************************************************************)
(* Claims checked under SpecSwarm.                                         *)
(***************************************************************************)
Range(seq) == {seq[i] : i \in 1..Len(seq)}

IdsOf(recs) == {r.id : r \in recs}

\* The push/pull in progress has run both merges and no other write
\* touched either store since its first snapshot.
XComplete == xinit # "none" /\ merged = Peers /\ xClean

\* C1: when two peers whose stores hold disjoint sets of record ids have
\* completed a push/pull (each took LocalState, each applied
\* MergeRemoteState to the other's blob), GetAll on either peer returns
\* exactly the union of the two record sets GetAll returned before, one
\* element per record.
C1_JoinYieldsUnion ==
    (XComplete /\ IdsOf(view0["A"]) \cap IdsOf(view0["B"]) = {})
        => \A p \in Peers :
              /\ Range(GetAll(store[p])) = view0["A"] \cup view0["B"]
              /\ Len(GetAll(store[p])) = Cardinality(view0["A"] \cup view0["B"])

\* C1 witness: a completed exchange between two non-empty, disjoint
\* stores, one of them holding two records.
C1_Witness ==
    /\ XComplete
    /\ IdsOf(view0["A"]) \cap IdsOf(view0["B"]) = {}
    /\ Cardinality(view0["A"]) = 1
    /\ Cardinality(view0["B"]) = 2

\* C2: once no message is in flight and a push/pull has completed, both
\* peers hold the same record under every id, also when they held
\* different records under one id before.
C2_ExchangeConverges ==
    (XComplete /\ InFlight = 0) => View(store["A"]) = View(store["B"])

\* The objects a decodable payload carries.
PutObjects(buf) == {o \in Range(buf.objs) : StringOr(o, "_id", "") # ""}

\* p stores, under the payload's id, the payload's seven known members.
CarriesPayload(st, o) ==
    /\ o["_id"].s \in DOMAIN st
    /\ \A k \in KnownKeys : st[o["_id"].s][k] = o[k]

\* C10: a record stored through NotifyMsg or MergeRemoteState carries the
\* hostID, _id, idString, filePath, size, modTime and blake3 of the payload.
C10_ReceiverKeepsPayload ==
    [][ \A p \in Peers :
          /\ \A m \in net[p] :
                (m \notin net'[p] /\ m.kind = "object")
                   => \A o \in PutObjects(m) : CarriesPayload(store'[p], o)
          /\ (p \notin merged /\ p \in merged' /\ snap[Other(p)].kind = "array")
                   => \A o \in PutObjects(snap[Other(p)]) : CarriesPayload(store'[p], o)
      ]_vars

(***************************************************************************)
(* SpecIndex: the index command on host A (cmd/indexer indexCmd.Run,       *)
(* fileprocessor.ProcessAllDirectories, fileprocessor.ProcessFile).        *)
(***************************************************************************)
Self == "A"

\* The files beneath the directory being indexed.
IndexFiles ==
    { [path |-> "/data/f1", modTime |-> "2026-02-01T00:00:00Z", size |-> I64(0, 0, 10), blake3 |-> "e1"],
      [path |-> "/data/f2", modTime |-> "2026-02-02T00:00:00Z", size |-> I64(0, 0, 20), blake3 |-> "e2"],
      [path |-> "/data/s/f3", modTime |-> "2026-02-03T00:00:00Z", size |-> I64(0, 1, 0), blake3 |-> "e3"],
      [path |-> "/data/s/f4", modTime |-> "2026-02-04T00:00:00Z", size |-> BigSize, blake3 |-> "e1"],
      [path |-> "/data/t/f5", modTime |-> "2026-02-05T00:00:00Z", size |-> I64(0, 0, 50), blake3 |-> "e5"],
      [path |-> "/data/s/u/f6", modTime |-> "2026-02-06T00:00:00Z", size |-> I64(0, 0, 60), blake3 |-> "e6"] }

\* The directory being indexed and the order in which its entries are read
\* (godirwalk with Unsorted: the order of the directory itself).
Root == "/data"

DirEntry(path) == [path |-> path, dir |-> TRUE]

FileEntry(path) == [path |-> path, dir |-> FALSE]

\* The entries directly in a directory, in the order the directory is read.
Children(dir) ==
    CASE dir = Root        -> <<FileEntry("/data/f1"), DirEntry("/data/s"),
                                FileEntry("/data/f2"), DirEntry("/data/t")>>
      [] dir = "/data/s"   -> <<FileEntry("/data/s/f3"), DirEntry("/data/s/u"),
                                FileEntry("/data/s/f4")>>
      [] dir = "/data/s/u" -> <<FileEntry("/data/s/u/f6")>>
      [] dir = "/data/t"   -> <<FileEntry("/data/t/f5")>>

\* The files directly in a directory.
FilesOf(dir) ==
    LET RECURSIVE pick(_)
        pick(es) == IF es = <<>> THEN <<>>
                    ELSE (IF es[1].dir THEN <<>> ELSE <<es[1].path>>) \o pick(Tail(es))
    IN  pick(Children(dir))

FileAt(path) == CHOOSE f \in IndexFiles : f.path = path

\* godirwalk.Walk(dir) with a callback that never answers SkipNode: the
\* callback sees dir, then, depth first, everything beneath it.
RECURSIVE WalkEntries(_)
WalkEntries(es) ==
    IF es = <<>> THEN <<>>
    ELSE <<es[1]>> \o (IF es[1].dir THEN WalkEntries(Children(es[1].path)) ELSE <<>>)
                  \o WalkEntries(Tail(es))

\* First walk of root: the callback sees root and its entries; it answers
\* SkipNode for the subdirectories, so they are not read.
RootWalk == <<DirEntry(Root)>> \o Children(Root)

\* Second walk of root: every entry beneath root, depth first.
EnumWalk == WalkEntries(<<DirEntry(Root)>>)

\* The walk of one subdirectory: the directory, then everything beneath it.
DirWalk(dir) == WalkEntries(<<DirEntry(dir)>>)

\* The files beneath the directories of a set, at any depth.
FilesUnder(dirs) ==
    {f \in IndexFiles : \E d \in dirs : FileEntry(f.path) \in Range(DirWalk(d))}

\* The paths of a set of files.
PathsOf(files) == {f.path : f \in files}

IndexInit ==
    /\ SwarmIdle
    /\ CodecIdle
    /\ FpIdle
    /\ CanonIdle
    /\ CacheIdle
    /\ ServeIdle
    /\ DiscIdle
    /\ ipc = "start"
    /\ swarmFlag \in BOOLEAN
    /\ mainSwarmDelegate = "nil"
    /\ fpSwarmDelegate = "nil"
    /\ broadcasts = <<>>
    /\ todo = IndexFiles
    /\ cancelled = FALSE
    /\ putLog = {}
    /\ walk = [NoWalk EXCEPT !.phase = "root", !.i = 1]
    /\ pf = NoFile
    /\ cancelState = NotCancelled
    /\ startedLate = {}
    /\ fileErrs = {}
    /\ dirErrs = {}
    /\ nPut = [f \in PathsOf(IndexFiles) |-> 0]

\* indexCmd.Run, lines 134-143: with --swarm, StartSwarm's delegate is
\* assigned to package main's swarmDelegate.
StartSwarmOk ==
    /\ ipc = "start"
    /\ swarmFlag
    /\ mainSwarmDelegate' = "delegate"
    /\ ipc' = "walking"
    /\ UNCHANGED <<swarmVars, swarmFlag, fpSwarmDelegate, broadcasts, todo, cancelled, putLog, walkVars, cacheVars, serveVars, discVars, codecVars, fpVars, canonVars>>

\* memberlist.Create failed: "failed to start swarm", os.Exit(1).
StartSwarmFails ==
    /\ ipc = "start"
    /\ swarmFlag
    /\ ipc' = "exited"
    /\ UNCHANGED <<swarmVars, swarmFlag, mainSwarmDelegate, fpSwarmDelegate, broadcasts,
                   todo, cancelled, putLog, walkVars, cacheVars, serveVars, discVars, codecVars, fpVars, canonVars>>

\* Without --swarm the walk starts at once.
StartLocalOnly ==
    /\ ipc = "start"
    /\ ~swarmFlag
    /\ ipc' = "walking"
    /\ UNCHANGED <<swarmVars, swarmFlag, mainSwarmDelegate, fpSwarmDelegate, broadcasts,
                   todo, cancelled, putLog, walkVars, cacheVars, serveVars, discVars, codecVars, fpVars, canonVars>>

\* The broadcast ProcessFile queues after a successful Put: the record's
\* json.Marshal(meta) encoding, if the package's swarmDelegate is set.
QueueIfDelegate(q, delegate, meta) ==
    IF delegate # "nil" THEN Append(q, ObjBlob(MarshalValue(meta))) ELSE q

\* A context whose cancellation is never seen.
CtxNeverDone(c) == FALSE

\* select { case <-ctx.Done(): ...; default: }: the case is taken once the
\* context is cancelled.
CtxDone(c) == c

\* A callback that hands ProcessFile's error on to the walk.
FileErrorEndsWalk(phase) == TRUE

\* What the walk does with an error of ProcessFile: it is printed (unless
\* quiet) and the callback returns nil, the file loop goes on.
FileErrorAborts(phase) == FALSE

\* What is left alone by every step of the walk.
walkFrame == <<swarmRest, swarmFlag, mainSwarmDelegate, fpSwarmDelegate, cancelled,
               cancelState, cacheVars, serveVars, discVars, codecVars, fpVars, canonVars>>

\* walkFrame and the count of processed files.
walkFrameN == <<walkFrame, nPut>>

\* The walk's position after the ProcessFile call has returned.
AfterFile(w) ==
    IF w.phase = "root" THEN [w EXCEPT !.i = @ + 1] ELSE [w EXCEPT !.j = @ + 1]

\* First walk, the callback on one entry: cancellation ends the walk with
\* ctx.Err(); a subdirectory is skipped; root is read; a file is handed to
\* ProcessFile.  After the last entry the second walk begins.
RootCallback ==
    /\ ipc = "walking"
    /\ walk.phase = "root"
    /\ pf.at = "none"
    /\ IF walk.i > Len(RootWalk)
       THEN /\ walk' = [walk EXCEPT !.phase = "enum", !.i = 1]
            /\ UNCHANGED <<ipc, pf>>
       ELSE IF CtxDone(cancelled)
       THEN /\ ipc' = "cancelled"
            /\ UNCHANGED <<walk, pf>>
       ELSE IF RootWalk[walk.i].dir
       THEN /\ walk' = [walk EXCEPT !.i = @ + 1]
            /\ UNCHANGED <<ipc, pf>>
       ELSE /\ pf' = [file |-> RootWalk[walk.i].path, at |-> "entry"]
            /\ UNCHANGED <<ipc, walk>>
    /\ UNCHANGED <<walkFrameN, store, broadcasts, todo, putLog, startedLate, fileErrs, dirErrs>>

\* Either walk of root cannot read root: godirwalk returns the error and so
\* does ProcessAllDirectories.
RootReadFails ==
    /\ ipc = "walking"
    /\ walk.phase \in {"root", "enum"}
    /\ pf.at = "none"
    /\ walk.i = 1
    /\ ~CtxDone(cancelled)
    /\ ipc' = "failed"
    /\ dirErrs' = dirErrs \cup {[dir |-> Root, phase |-> walk.phase]}
    /\ UNCHANGED <<walkFrameN, store, broadcasts, todo, putLog, walk, pf, startedLate, fileErrs>>

\* ProcessFile, its first statement: a cancelled context makes it return
\* ctx.Err() (printed by the caller, which goes on); otherwise the work on
\* the file begins.
ProcessFileEntry ==
    /\ ipc = "walking"
    /\ pf.at = "entry"
    /\ IF CtxDone(cancelled)
       THEN /\ pf' = NoFile
            /\ walk' = AfterFile(walk)
            /\ UNCHANGED <<todo, startedLate>>
       ELSE /\ pf' = [pf EXCEPT !.at = "inflight"]
            /\ todo' = todo \ {FileAt(pf.file)}
            /\ startedLate' = startedLate \cup (IF cancelled THEN {pf.file} ELSE {})
            /\ UNCHANGED walk
    /\ UNCHANGED <<walkFrameN, store, broadcasts, putLog, ipc, fileErrs, dirErrs>>

\* ProcessFile(ctx, path, ps, true) succeeds: stat, canonicalize,
\* fingerprint, Put, then the broadcast branch.
ProcessFileOk(f) ==
    /\ ipc = "walking"
    /\ pf = [file |-> f.path, at |-> "inflight"]
    /\ LET meta == NewMetadata(HostID[Self], f)
           r    == Put(store[Self], meta)
       IN  /\ ~r.err
           /\ store' = [store EXCEPT ![Self] = r.st]
           /\ broadcasts' = QueueIfDelegate(broadcasts, fpSwarmDelegate, meta)
           /\ putLog' = putLog \cup {meta}
    /\ nPut' = [nPut EXCEPT ![f.path] = @ + 1]
    /\ pf' = NoFile
    /\ walk' = AfterFile(walk)
    /\ UNCHANGED <<walkFrame, todo, ipc, startedLate, fileErrs, dirErrs>>

\* ProcessFile fails at stat, at the fingerprint or at the store
\* transaction: the error is printed and the walk goes on.
ProcessFileFails(f, phase) ==
    /\ ipc = "walking"
    /\ pf = [file |-> f.path, at |-> "inflight"]
    /\ phase \in {"stat", "fingerprint", "put"}
    /\ fileErrs' = fileErrs \cup {f.path}
    /\ pf' = NoFile
    /\ IF FileErrorAborts(phase)
       THEN ipc' = "failed" /\ UNCHANGED walk
       ELSE walk' = AfterFile(walk) /\ UNCHANGED ipc
    /\ UNCHANGED <<walkFrameN, store, broadcasts, todo, putLog, startedLate, dirErrs>>

\* Second walk, the callback on one entry: cancellation ends the walk with
\* ctx.Err(); a directory other than root is appended to subdirs and read.
\* After the last entry the loop over subdirs begins.
EnumCallback ==
    /\ ipc = "walking"
    /\ walk.phase = "enum"
    /\ IF walk.i > Len(EnumWalk)
       THEN /\ walk' = [walk EXCEPT !.phase = "dirs", !.k = 1]
            /\ UNCHANGED ipc
       ELSE IF CtxDone(cancelled)
       THEN /\ ipc' = "cancelled"
            /\ UNCHANGED walk
       ELSE /\ walk' = [walk EXCEPT
                          !.i = @ + 1,
                          !.subdirs = IF EnumWalk[walk.i].dir /\ EnumWalk[walk.i].path # Root
                                      THEN Append(@, EnumWalk[walk.i].path) ELSE @]
            /\ UNCHANGED ipc
    /\ UNCHANGED <<walkFrameN, store, broadcasts, todo, putLog, pf, startedLate, fileErrs,
                   dirErrs>>

\* Second walk: a subdirectory cannot be read after its callback returned.
\* No ErrorCallback is set, so godirwalk halts and returns the error, and
\* ProcessAllDirectories returns it (line 281).
EnumReadFails ==
    /\ ipc = "walking"
    /\ walk.phase = "enum"
    /\ walk.i <= Len(EnumWalk)
    /\ EnumWalk[walk.i].dir
    /\ EnumWalk[walk.i].path # Root
    /\ ~CtxDone(cancelled)
    /\ ipc' = "failed"
    /\ dirErrs' = dirErrs \cup {[dir |-> EnumWalk[walk.i].path, phase |-> "enum"]}
    /\ UNCHANGED <<walkFrameN, store, broadcasts, todo, putLog, walk, pf, startedLate, fileErrs>>

\* for i, dir := range subdirs: the select at the top of the body, then the
\* walk of dir starts with an empty filesInDir.
DirsLoop ==
    /\ ipc = "walking"
    /\ walk.phase = "dirs"
    /\ walk.k <= Len(walk.subdirs)
    /\ IF CtxDone(cancelled)
       THEN /\ ipc' = "cancelled"
            /\ UNCHANGED walk
       ELSE /\ walk' = [walk EXCEPT !.phase = "collect", !.i = 1, !.files = <<>>]
            /\ UNCHANGED ipc
    /\ UNCHANGED <<walkFrameN, store, broadcasts, todo, putLog, pf, startedLate, fileErrs,
                   dirErrs>>

\* Walk of one subdirectory, the callback on one entry: a file is appended
\* to filesInDir.  Cancellation makes the callback return ctx.Err(), which
\* the walk returns; that error is handled like any other error of this
\* walk: printed, then `continue`.  After the last entry an empty filesInDir
\* means `continue`, otherwise the file loop begins.
CollectCallback ==
    /\ ipc = "walking"
    /\ walk.phase = "collect"
    /\ LET entries == DirWalk(walk.subdirs[walk.k])
       IN  walk' =
             IF walk.i > Len(entries)
             THEN IF walk.files = <<>>
                  THEN [walk EXCEPT !.phase = "dirs", !.k = @ + 1]
                  ELSE [walk EXCEPT !.phase = "files", !.j = 1]
             ELSE IF CtxDone(cancelled)
             THEN [walk EXCEPT !.phase = "dirs", !.k = @ + 1, !.files = <<>>]
             ELSE [walk EXCEPT
                     !.i = @ + 1,
                     !.files = IF entries[walk.i].dir THEN @
                               ELSE Append(@, entries[walk.i].path)]
    /\ UNCHANGED <<walkFrameN, store, broadcasts, todo, putLog, ipc, pf, startedLate,
                   fileErrs, dirErrs>>

\* Walk of one subdirectory: the directory, or one beneath it, cannot be
\* read.  The walk returns the error; "Error reading directory" is printed
\* and the loop continues with the next subdirectory, filesInDir is dropped.
CollectReadFails ==
    /\ ipc = "walking"
    /\ walk.phase = "collect"
    /\ walk.i <= Len(DirWalk(walk.subdirs[walk.k]))
    /\ DirWalk(walk.subdirs[walk.k])[walk.i].dir
    /\ ~CtxDone(cancelled)
    /\ walk' = [walk EXCEPT !.phase = "dirs", !.k = @ + 1, !.files = <<>>]
    /\ dirErrs' = dirErrs \cup {[dir |-> DirWalk(walk.subdirs[walk.k])[walk.i].path,
                                 phase |-> "collect"]}
    /\ UNCHANGED <<walkFrameN, store, broadcasts, todo, putLog, ipc, pf, startedLate, fileErrs>>

\* for _, fpath := range filesInDir: the select at the top of the body, then
\* ProcessFile is called; after the last file the next subdirectory.
FilesLoop ==
    /\ ipc = "walking"
    /\ walk.phase = "files"
    /\ pf.at = "none"
    /\ IF walk.j > Len(walk.files)
       THEN /\ walk' = [walk EXCEPT !.phase = "dirs", !.k = @ + 1]
            /\ UNCHANGED <<ipc, pf>>
       ELSE IF CtxDone(cancelled)
       THEN /\ ipc' = "cancelled"
            /\ UNCHANGED <<walk, pf>>
       ELSE /\ pf' = [file |-> walk.files[walk.j], at |-> "entry"]
            /\ UNCHANGED <<ipc, walk>>
    /\ UNCHANGED <<walkFrameN, store, broadcasts, todo, putLog, startedLate, fileErrs, dirErrs>>

\* SIGINT/SIGTERM: the signal goroutine cancels the context.
Cancel ==
    /\ ipc = "walking"
    /\ ~cancelled
    /\ cancelled' = TRUE
    /\ cancelState' = [fired    |-> TRUE,
                       todo     |-> todo \ FilesUnder({e.dir : e \in dirErrs}),
                       inflight |-> IF pf.at = "inflight" THEN pf.file ELSE ""]
    /\ UNCHANGED <<swarmVars, ipc, swarmFlag, mainSwarmDelegate, fpSwarmDelegate,
                   broadcasts, todo, putLog, walk, pf, startedLate, fileErrs, dirErrs,
                   nPut, cacheVars, serveVars, discVars, codecVars, fpVars, canonVars>>

\* The loop over subdirs is over: return nil.
WalkReturns ==
    /\ ipc = "walking"
    /\ walk.phase = "dirs"
    /\ walk.k > Len(walk.subdirs)
    /\ ipc' = "done"
    /\ UNCHANGED <<walkFrameN, store, broadcasts, todo, putLog, walk, pf, startedLate,
                   fileErrs, dirErrs>>

IndexNext ==
    \/ StartSwarmOk
    \/ StartSwarmFails
    \/ StartLocalOnly
    \/ RootCallback
    \/ RootReadFails
    \/ ProcessFileEntry
    \/ \E f \in IndexFiles : ProcessFileOk(f)
    \/ \E f \in IndexFiles, ph \in {"stat", "fingerprint", "put"} : ProcessFileFails(f, ph)
    \/ EnumCallback
    \/ EnumReadFails
    \/ DirsLoop
    \/ CollectCallback
    \/ CollectReadFails
    \/ FilesLoop
    \/ Cancel
    \/ WalkReturns

SpecIndex == IndexInit /\ [][IndexNext]_vars

(***************************************************************************)
(* Claims checked under SpecIndex.                                         *)
(***************************************************************************)
\* C3: with swarm mode enabled and a delegate returned by StartSwarm, every
\* record ProcessFile has put into the local store is also queued, as its
\* JSON encoding, on the delegate's broadcast queue.
C3_PutIsBroadcast ==
    (swarmFlag /\ mainSwarmDelegate # "nil")
        => \A meta \in putLog : ObjBlob(MarshalValue(meta)) \in Range(broadcasts)

\* ProcessAllDirectories has returned.
WalkOver == ipc \in {"done", "cancelled", "failed"}


\* C17: no file's processing begins once the context is cancelled, and the
\* files persisted are files whose processing had begun before: none of the
\* files still unprocessed at the cancellation is ever put into the store.
C17_NoNewFileAfterCancel ==
    /\ startedLate = {}
    /\ cancelState.fired
           => \A meta \in putLog : meta.filePath \notin PathsOf(cancelState.todo)

\* The context was cancelled while a file was in flight and others were
\* left; the walk returned the cancellation and only the file in flight was
\* persisted after it.
C17_Witness ==
    /\ ipc = "cancelled"
    /\ cancelState.inflight = "/data/s/f3"
    /\ cancelState.todo = {FileAt("/data/s/u/f6"), FileAt("/data/s/f4"), FileAt("/data/t/f5")}
    /\ NewMetadata(HostID[Self], FileAt("/data/s/f3")) \in putLog
    /\ todo = cancelState.todo

\* C18: a walk during which the context was cancelled while files were
\* still unprocessed does not return nil.
C18_CancelReturnsError ==
    (cancelState.fired /\ cancelState.todo # {}) => ipc # "done"

\* C19: a walk that was not cancelled and met no directory error returns
\* nil with every file handed to ProcessFile, whatever ProcessFile returned.
C19_FileErrorsDoNotAbort ==
    (WalkOver /\ ~cancelled /\ dirErrs = {}) => (ipc = "done" /\ todo = {})

\* ProcessFile failed for a root file and for the first file of a
\* subdirectory; the walk returned nil and the three other files are stored.
C19_Witness ==
    /\ ipc = "done"
    /\ ~cancelled
    /\ dirErrs = {}
    /\ fileErrs = {"/data/f1", "/data/s/f3"}
    /\ todo = {}
    /\ {meta.filePath : meta \in putLog} = {"/data/f2", "/data/s/f4", "/data/t/f5", "/data/s/u/f6"}

\* C20: a walk that was not cancelled and could not read directories
\* beneath root returns nil and has handed every file outside those
\* directories to ProcessFile.
C20_DirErrorSkipsSubtreeOnly ==
    (WalkOver /\ ~cancelled /\ dirErrs # {} /\ \A e \in dirErrs : e.dir # Root)
        => /\ ipc = "done"
           /\ todo \subseteq FilesUnder({e.dir : e \in dirErrs})

\* C27: every record ProcessFile has stored carries a host id: its hostID
\* is not empty and its idString does not begin with an empty host
\* component.
C27_RecordsCarryHostId ==
    \A meta \in putLog :
        /\ meta.hostID # ""
        /\ \A f \in IndexFiles : meta.idString # NewMetadata("", f).idString

\* The directories directly in root.
DirectChildren == {e.path : e \in {c \in Range(Children(Root)) : c.dir}}

\* C21: the subdirectories enumerated are the direct child directories of
\* root only, and a walk that returned nil without cancellation and without
\* any file or directory error has fingerprinted and stored every file
\* beneath root exactly once.
C21_EachFileOnce ==
    /\ Range(walk.subdirs) \subseteq DirectChildren
    /\ (ipc = "done" /\ ~cancelled /\ fileErrs = {} /\ dirErrs = {})
           => \A f \in IndexFiles : nPut[f.path] = 1

(***************************************************************************)
(* SpecReindex: the index command run over the tree, and run once more on  *)
(* the same database after a run that returned nil with no error, the      *)
(* tree unchanged in between.                                              *)
(***************************************************************************)
\* indexCmd.Run once more: the same root, the same files, the store as the
\* first run left it.
Rerun ==
    /\ ipc = "done"
    /\ walk.ran = <<>>
    /\ ~cancelled
    /\ fileErrs = {}
    /\ dirErrs = {}
    /\ ipc' = "walking"
    /\ walk' = [NoWalk EXCEPT !.phase = "root", !.i = 1, !.ran = <<store[Self]>>]
    /\ todo' = IndexFiles
    /\ UNCHANGED <<swarmVars, swarmFlag, mainSwarmDelegate, fpSwarmDelegate, broadcasts,
                   cancelled, putLog, pf, cancelState, startedLate, fileErrs, dirErrs,
                   nPut, cacheVars, serveVars, discVars, codecVars, fpVars, canonVars>>

ReindexNext ==
    \/ IndexNext
    \/ Rerun

SpecReindex == IndexInit /\ [][ReindexNext]_vars

\* C34: the id is a function of host id, path, modification time, size and
\* digest alone, so throughout and after a second run over the unchanged
\* tree the store holds the ids it held after the first run and the same
\* record under each of them.
C34_ReindexLeavesStore ==
    walk.ran # <<>> =>
        /\ store[Self] = walk.ran[1]
        /\ \A f \in IndexFiles :
              /\ NewMetadata(HostID[Self], f).id \in DOMAIN store[Self]
              /\ UnmarshalJSON(store[Self][NewMetadata(HostID[Self], f).id]).filePath = f.path

\* C34, its case reached: the second run has returned after putting every
\* file again.
C34_Witness ==
    /\ walk.ran # <<>>
    /\ ipc = "done"
    /\ fileErrs = {}
    /\ dirErrs = {}
    /\ \A f \in IndexFiles : nPut[f.path] >= 2
    /\ store[Self] = walk.ran[1]
    /\ Cardinality(DOMAIN store[Self]) = Cardinality(IndexFiles)

(***************************************************************************)
(* SpecProcessFile: one call of ProcessFile(ctx, filePath, ps, store), as  *)
(* rootCmd.Run makes it (store = false) and as the walk makes it (store =  *)
(* true), on a store that is empty or already holds a record.              *)
(***************************************************************************)
\* A mutation: the record is queued whatever became of the put.
QueueRegardless(q, delegate, meta, stored) ==
    Append(q, ObjBlob(MarshalValue(meta)))

\* Lines 199-221: the broadcast branch lies inside the if store block,
\* behind the return on a failed Put.
QueueAfterPut(q, delegate, meta, stored) ==
    IF stored THEN QueueIfDelegate(q, delegate, meta) ELSE q

\* ProcessFile: the store, the broadcast queue, the error and the
\* fingerprint it returns.  done: ctx is cancelled; fail: the step that
\* fails ("none": no step does).
ProcessFile(st, q, delegate, host, f, persist, done, fail) ==
    LET meta == NewMetadata(host, f)
        r    == Put(st, meta)
        put  == persist /\ ~r.err /\ fail # "put"
    IN  IF done THEN [st |-> st, q |-> q, err |-> "ctx", fingerprint |-> ""]
        ELSE IF fail \in {"stat", "fingerprint"}
          THEN [st |-> st, q |-> q, err |-> fail, fingerprint |-> ""]
        ELSE [st          |-> IF put THEN r.st ELSE st,
              q           |-> QueueAfterPut(q, delegate, meta, put),
              err         |-> IF persist /\ ~put THEN "put" ELSE "",
              fingerprint |-> IF persist /\ ~put THEN "" ELSE f.blake3]

\* What the store holds when ProcessFile is called.
PriorStores ==
    { EmptyBucket, Put(EmptyBucket, NewMetadata("", FileAt("/data/f1"))).st }

ProcessFileInit ==
    /\ HostID = [p \in Peers |-> ""]
    /\ store \in {[p \in Peers |-> IF p = Self THEN st ELSE EmptyBucket] : st \in PriorStores}
    /\ net = [p \in Peers |-> {}]
    /\ xinit = "none"
    /\ snap = [p \in Peers |-> BadBlob]
    /\ snapTaken = {}
    /\ merged = {}
    /\ view0 = [p \in Peers |-> {}]
    /\ xClean = TRUE
    /\ CacheIdle
    /\ ServeIdle
    /\ DiscIdle
    /\ CodecIdle
    /\ FpIdle
    /\ CanonIdle
    /\ ipc = "off"
    /\ swarmFlag = FALSE
    /\ mainSwarmDelegate = "nil"
    /\ fpSwarmDelegate = "nil"
    /\ broadcasts = <<>>
    /\ todo = {}
    /\ cancelled \in BOOLEAN
    /\ putLog = {}
    /\ walk = NoWalk
    /\ pf \in {[file |-> f.path, at |-> "call", store |-> b, err |-> "", fingerprint |-> ""] :
                 f \in IndexFiles, b \in BOOLEAN}
    /\ cancelState = NotCancelled
    /\ startedLate = {}
    /\ fileErrs = {}
    /\ dirErrs = {}
    /\ nPut = <<>>

\* The call runs to its return.
ProcessFileCall(fail) ==
    /\ pf.at = "call"
    /\ fail = "put" => pf.store
    /\ LET r == ProcessFile(store[Self], broadcasts, fpSwarmDelegate, HostID[Self],
                            FileAt(pf.file), pf.store, cancelled, fail)
       IN  /\ store' = [store EXCEPT ![Self] = r.st]
           /\ broadcasts' = r.q
           /\ pf' = [pf EXCEPT !.at = "returned", !.err = r.err, !.fingerprint = r.fingerprint]
    /\ UNCHANGED <<swarmRest, ipc, swarmFlag, mainSwarmDelegate, fpSwarmDelegate, todo,
                   cancelled, putLog, walk, cancelState, startedLate, fileErrs, dirErrs,
                   nPut, cacheVars, serveVars, discVars, codecVars, fpVars, canonVars>>

ProcessFileNext ==
    \E fail \in {"none", "stat", "fingerprint", "put"} : ProcessFileCall(fail)

SpecProcessFile == ProcessFileInit /\ [][ProcessFileNext]_vars

\* C35: a call of ProcessFile changes the broadcast queue only by appending
\* the record it has just put into the store; a call that fails at stat,
\* fingerprint or put, or runs with store = false, leaves the queue as it
\* was, and one that fails before the put or does not persist leaves the
\* store as it was.
C35_BroadcastOnlyAfterPut ==
    [][(pf.at = "call" /\ pf'.at = "returned") =>
          LET meta == NewMetadata(HostID[Self], FileAt(pf.file))
          IN  /\ broadcasts' # broadcasts =>
                    /\ pf.store
                    /\ pf'.err = ""
                    /\ meta.id \in DOMAIN store'[Self]
                    /\ UnmarshalJSON(store'[Self][meta.id]).idString = meta.idString
                    /\ broadcasts' = Append(broadcasts, ObjBlob(MarshalValue(meta)))
              /\ (pf'.err # "" \/ ~pf.store) => broadcasts' = broadcasts
              /\ (pf'.err \in {"ctx", "stat", "fingerprint"} \/ ~pf.store) => store' = store
       ]_vars

\* C35, its case reached: a call with store = true has failed at the put;
\* the queue is empty and the store does not hold the record.
C35_Witness ==
    /\ pf.at = "returned"
    /\ pf.store
    /\ pf.err = "put"
    /\ broadcasts = <<>>
    /\ NewMetadata(HostID[Self], FileAt(pf.file)).id \notin DOMAIN store[Self]

(***************************************************************************)
(* SpecCache: one store on host A with its CacheWriter, the direct         *)
(* writers (ProcessFile, NotifyMsg, MergeRemoteState) and the readers      *)
(* (GetAll, LocalState, /_changes).                                        *)
(***************************************************************************)
\* NewCacheWriter's batchSize.
BatchSize == 2

\* Write calls in one run.
MaxWrites == 3

\* The record ProcessFile builds for the one file indexed beside the cache.
RecF ==
    NewMetadata("", [path |-> "/data/f1", modTime |-> "2026-02-01T00:00:00Z",
                      size |-> I64(0, 0, 10), blake3 |-> "e1"])

\* Records handed to CacheWriter.Write.
CacheRecs == {RecC2, RecNoId}

\* Gossip delivered to NotifyMsg on this host.
CacheMsgs == {ObjBlob(MarshalValue(RecC1)), BadBlob}

\* Remote states handed to MergeRemoteState on this host.
CacheStates ==
    { ArrBlob(<<MarshalValue(RecC1), MarshalValue(RecNoId), MarshalValue(RecF)>>),
      ArrBlob(<<>>) }

\* The state NewCacheWriter leaves: empty channel of capacity 2*batchSize,
\* wg.Add(1), the worker started and its timer created.
CacheInit ==
    /\ SwarmIdle
    /\ CodecIdle
    /\ FpIdle
    /\ CanonIdle
    /\ IndexIdle
    /\ ServeIdle
    /\ DiscIdle
    /\ ch = <<>>
    /\ batch = <<>>
    /\ timer = "armed"
    /\ wpc = "select"
    /\ trigger = "none"
    /\ tx = NoTx
    /\ quit = FALSE
    /\ wg = 1
    /\ cpc = "idle"
    /\ nWrites = 0
    /\ written = {}
    /\ lastFlush = NoFlush
    /\ lastWrite = <<>>
    /\ readResult = NoRead
    /\ wr = <<>>
    /\ fn = NoFlushNow

\* History: the last committed write per id after metas were written in order.
RECURSIVE LastWriteAfter(_, _, _)
LastWriteAfter(h, metas, i) ==
    IF i > Len(metas) THEN h
    ELSE LastWriteAfter(IF metas[i].id = "" THEN h ELSE (metas[i].id :> metas[i]) @@ h,
                        metas, i + 1)

\* db.Update begins: the transaction works on its own copy of the bucket.
BeginTx(st) == [open |-> TRUE, data |-> st, i |-> 1, pre |-> st]

\* A transaction that leaves its writes in place when its function fails.
RollbackKeepsWrites(st, t) == t.data

\* db.Update's function returned an error: the transaction is rolled back.
Rollback(st, t) == st

\* db.Update's function returned nil: the transaction's bucket is committed.
Commit(st, t) == t.data

\* A reader that sees the writes of the open transaction.
ReadTxDirty(st, t) == IF t.open THEN t.data ELSE st

\* db.View: a read transaction sees the last committed bucket.
ReadTx(st, t) == st

\* CacheWriter.Write: cw.ch <- meta; returns once the buffer took the record.
Write(r) ==
    /\ wpc # "off"
    /\ nWrites < MaxWrites
    /\ Len(ch) < 2 * BatchSize
    /\ ch' = Append(ch, r)
    /\ nWrites' = nWrites + 1
    /\ written' = IF quit THEN written ELSE written \cup {r}
    /\ UNCHANGED <<swarmVars, indexVars, batch, timer, wpc, trigger, tx, quit, wg, cpc,
                   lastFlush, lastWrite, readResult, serveVars, discVars, wr, codecVars, fpVars, canonVars, fn>>

\* The flushInterval elapses: the runtime sends on timer.C.
TimerFires ==
    /\ wpc \in {"select", "flush"}
    /\ timer = "armed"
    /\ timer' = "fired"
    /\ UNCHANGED <<swarmVars, indexVars, ch, batch, wpc, trigger, tx, quit, wg, cpc,
                   nWrites, written, lastFlush, lastWrite, readResult, serveVars, discVars, wr, codecVars, fpVars, canonVars, fn>>

\* run, case meta := <-cw.ch: append; at batchSize the flush starts.
WorkerRecv ==
    /\ wpc = "select"
    /\ ch # <<>>
    /\ ch' = Tail(ch)
    /\ batch' = Append(batch, Head(ch))
    /\ IF Len(batch) + 1 >= BatchSize
       THEN /\ wpc' = "flush"
            /\ trigger' = "size"
            /\ tx' = BeginTx(store[Self])
       ELSE UNCHANGED <<wpc, trigger, tx>>
    /\ UNCHANGED <<swarmVars, indexVars, timer, quit, wg, cpc, nWrites, written,
                   lastFlush, lastWrite, readResult, serveVars, discVars, wr, codecVars, fpVars, canonVars, fn>>

\* A timer case that flushes full batches only.
TimerFlushesFullBatch(b) == Len(b) >= BatchSize

\* run, case <-timer.C, line 118: if len(batch) > 0.
TimerFlushes(b) == Len(b) > 0

\* run, case <-timer.C: flush a non-empty batch, then timer.Reset.
WorkerTimer ==
    /\ wpc = "select"
    /\ timer = "fired"
    /\ IF TimerFlushes(batch)
       THEN /\ wpc' = "flush"
            /\ trigger' = "timer"
            /\ tx' = BeginTx(store[Self])
            /\ timer' = "expired"
       ELSE /\ timer' = "armed"
            /\ UNCHANGED <<wpc, trigger, tx>>
    /\ UNCHANGED <<swarmVars, indexVars, ch, batch, quit, wg, cpc, nWrites, written,
                   lastFlush, lastWrite, readResult, serveVars, discVars, wr, codecVars, fpVars, canonVars, fn>>

\* run, case <-cw.flushNowCh, lines 123-127: flush a non-empty batch (the
\* timer is left alone).
FlushNowCase ==
    /\ wpc = "select"
    /\ IF batch # <<>>
       THEN /\ wpc' = "flush"
            /\ trigger' = "now"
            /\ tx' = BeginTx(store[Self])
       ELSE UNCHANGED <<wpc, trigger, tx>>
    /\ UNCHANGED <<swarmVars, indexVars, ch, batch, timer, quit, wg, cpc, nWrites, written,
                   lastFlush, lastWrite, readResult, serveVars, discVars, wr, codecVars, fpVars, canonVars>>

\* The worker receives from a FlushNow caller that is not followed, with a
\* non-empty batch.
WorkerFlushNow ==
    /\ batch # <<>>
    /\ FlushNowCase
    /\ UNCHANGED fn

\* run, case <-cw.quit: flush a non-empty batch, then return.  run never
\* calls cw.wg.Done().
WorkerQuit ==
    /\ wpc = "select"
    /\ quit
    /\ IF batch # <<>>
       THEN /\ wpc' = "flush"
            /\ trigger' = "quit"
            /\ tx' = BeginTx(store[Self])
       ELSE /\ wpc' = "stopped"
            /\ UNCHANGED <<trigger, tx>>
    /\ UNCHANGED <<swarmVars, indexVars, ch, batch, timer, quit, wg, cpc, nWrites, written,
                   lastFlush, lastWrite, readResult, serveVars, discVars, wr, codecVars, fpVars, canonVars, fn>>

\* A mutation: the batch is kept for the next flush.
BatchKeptForRetry(b) == b

\* run, lines 111, 120, 126: batch = nil once cw.flush has returned, whether
\* or not the transaction failed (flush only logs the error).
BatchAfterFlush(b) == <<>>

\* What run does once cw.flush returned, by the case that called it.
AfterFlush ==
    /\ batch' = BatchAfterFlush(batch)
    /\ tx' = NoTx
    /\ trigger' = "none"
    /\ wpc' = IF trigger = "quit" THEN "stopped" ELSE "select"
    /\ timer' = IF trigger \in {"size", "timer"} THEN "armed" ELSE timer

\* flush, one turn of its loop: json.Marshal(meta), b.Put.  An error ends
\* the transaction's function: rollback, "CacheWriter flush error" logged.
FlushPut ==
    /\ wpc = "flush"
    /\ tx.i <= Len(batch)
    /\ LET meta == batch[tx.i]
           r    == BucketPut(tx.data, meta.id, MarshalValue(meta))
       IN  IF r.err
           THEN /\ store' = [store EXCEPT ![Self] = Rollback(store[Self], tx)]
                /\ lastFlush' = [res |-> "failed", undone |-> tx.i - 1]
                /\ AfterFlush
           ELSE /\ tx' = [tx EXCEPT !.data = r.b, !.i = @ + 1]
                /\ UNCHANGED <<store, lastFlush, batch, trigger, wpc, timer>>
    /\ UNCHANGED <<swarmRest, indexVars, ch, quit, wg, cpc, nWrites, written,
                   lastWrite, readResult, serveVars, discVars, wr, codecVars, fpVars, canonVars, fn>>

\* flush, the loop is over: the transaction commits.
FlushCommit ==
    /\ wpc = "flush"
    /\ tx.i > Len(batch)
    /\ store' = [store EXCEPT ![Self] = Commit(store[Self], tx)]
    /\ lastFlush' = [res |-> "ok", undone |-> 0]
    /\ lastWrite' = LastWriteAfter(lastWrite, batch, 1)
    /\ AfterFlush
    /\ UNCHANGED <<swarmRest, indexVars, ch, quit, wg, cpc, nWrites, written, readResult, serveVars, discVars, wr, codecVars, fpVars, canonVars, fn>>

\* CacheWriter.Close: close(cw.quit).
CloseCall ==
    /\ wpc # "off"
    /\ cpc = "idle"
    /\ quit' = TRUE
    /\ cpc' = "called"
    /\ UNCHANGED <<swarmVars, indexVars, ch, batch, timer, wpc, trigger, tx, wg, nWrites,
                   written, lastFlush, lastWrite, readResult, serveVars, discVars, wr, codecVars, fpVars, canonVars, fn>>

\* CacheWriter.Close: cw.wg.Wait() returns at once when the counter is 0
\* and parks the caller otherwise, until a Done() brings it to 0.
CloseWait ==
    /\ cpc = "called"
    /\ cpc' = IF wg = 0 THEN "returned" ELSE "waiting"
    /\ UNCHANGED <<swarmVars, indexVars, ch, batch, timer, wpc, trigger, tx, quit, wg,
                   nWrites, written, lastFlush, lastWrite, readResult, serveVars, discVars, wr, codecVars, fpVars, canonVars, fn>>

\* A direct writer's effect on the store and on the history.
DirectWrite(st2, metas) ==
    /\ store' = [store EXCEPT ![Self] = st2]
    /\ lastWrite' = LastWriteAfter(lastWrite, metas, 1)
    /\ UNCHANGED <<swarmRest, indexVars, ch, batch, timer, wpc, trigger, tx, quit, wg, cpc,
                   nWrites, written, lastFlush, readResult, serveVars, discVars, wr, codecVars, fpVars, canonVars, fn>>

\* ProcessFile's ps.Put(meta); bbolt admits one write transaction at a time.
CachePut ==
    /\ wpc # "off"
    /\ ~tx.open
    /\ DirectWrite(Put(store[Self], RecF).st, <<RecF>>)

\* NotifyMsg on this host.
CacheNotify(m) ==
    /\ wpc # "off"
    /\ ~tx.open
    /\ DirectWrite(NotifyMsgStore(store[Self], m),
                   IF m.kind = "object" THEN <<UnmarshalJSON(m.objs[1])>> ELSE <<>>)

\* MergeRemoteState on this host.
CacheMerge(buf) ==
    /\ wpc # "off"
    /\ ~tx.open
    /\ DirectWrite(MergeRemoteState(store[Self], buf),
                   IF buf.kind = "array"
                   THEN [i \in 1..Len(buf.objs) |-> UnmarshalJSON(buf.objs[i])]
                   ELSE <<>>)

\* GetAll, called directly, by LocalState or by the /_changes handler.
ReadAll(caller) ==
    /\ wpc # "off"
    /\ caller \in {"GetAll", "LocalState", "/_changes"}
    /\ readResult' = [res  |-> GetAll(ReadTx(store[Self], tx)),
                      at   |-> store[Self],
                      inTx |-> tx.open /\ tx.data # store[Self]]
    /\ UNCHANGED <<swarmVars, indexVars, ch, batch, timer, wpc, trigger, tx, quit, wg, cpc,
                   nWrites, written, lastFlush, lastWrite, serveVars, discVars, wr, codecVars, fpVars, canonVars, fn>>

CacheNext ==
    \/ \E r \in CacheRecs : Write(r)
    \/ TimerFires
    \/ WorkerRecv
    \/ WorkerTimer
    \/ WorkerFlushNow
    \/ WorkerQuit
    \/ FlushPut
    \/ FlushCommit
    \/ CloseCall
    \/ CloseWait
    \/ CachePut
    \/ \E m \in CacheMsgs : CacheNotify(m)
    \/ \E buf \in CacheStates : CacheMerge(buf)
    \/ \E caller \in {"GetAll", "LocalState", "/_changes"} : ReadAll(caller)

SpecCache == CacheInit /\ [][CacheNext]_vars

\* The worker goroutine and the goroutine inside Close are scheduled as long
\* as they can take a step; a select with the closed quit channel ready
\* chooses that case again and again until it is taken.
SpecCacheFair ==
    /\ SpecCache
    /\ WF_vars(WorkerRecv \/ WorkerTimer \/ WorkerQuit \/ FlushPut \/ FlushCommit)
    /\ SF_vars(WorkerQuit)
    /\ WF_vars(CloseWait)

(***************************************************************************)
(* Properties of the CacheWriter and of the store under SpecCache.         *)
(***************************************************************************)
\* C4: once the worker has stopped after Close, every record whose Write
\* returned before Close was called is in the store, provided every flush
\* succeeded (here: every Write was of a distinct record with a valid id and
\* returned before Close).
C4_CloseFlushesAll ==
    (/\ wpc = "stopped"
     /\ nWrites = Cardinality(written)
     /\ \A r \in written : r.id # "")
    => \A r \in written : r.id \in DOMAIN store[Self]

\* C5: after Close signalled quit, Close eventually returns.
C5_CloseReturns == (cpc = "called") ~> (cpc = "returned")

\* C6: a flush that fails leaves the store with the content it had when the
\* flush began.
C6_FailedFlushChangesNothing ==
    [][(wpc = "flush" /\ wpc' # "flush" /\ lastFlush'.res = "failed")
       => store'[Self] = tx.pre]_vars

\* A flush failed after a Put of a new, valid record had succeeded in its
\* transaction, and that record is not in the store.
C6_Witness ==
    /\ lastFlush.res = "failed"
    /\ lastFlush.undone > 0
    /\ RecC2 \in written
    /\ RecC2.id \notin DOMAIN store[Self]

\* C7: what GetAll returned is the content of the committed bucket at the
\* time of the call, whatever an open flush transaction had written so far.
C7_ReadSeesCommitted == readResult.res = GetAll(readResult.at)

\* A GetAll ran while a flush had uncommitted writes, over a non-empty store.
C7_Witness ==
    /\ readResult.inTx
    /\ readResult.res # <<>>

\* C8: the bucket holds one value per id, and for every id it is the
\* encoding of the record of the last committed write with that id.
C8_LastWriteWins ==
    /\ DOMAIN store[Self] = DOMAIN lastWrite
    /\ \A id \in DOMAIN lastWrite : store[Self][id] = MarshalValue(lastWrite[id])

\* The one record handed to Write was flushed, and a later NotifyMsg or
\* MergeRemoteState with the same id replaced it.
C8_Witness ==
    /\ nWrites = 1
    /\ written = {RecC2}
    /\ ch = <<>>
    /\ batch = <<>>
    /\ lastFlush.res = "ok"
    /\ RecC2.id \in DOMAIN store[Self]
    /\ store[Self][RecC2.id] = MarshalValue(UnmarshalJSON(MarshalValue(RecC1)))
    /\ store[Self][RecC2.id] # MarshalValue(RecC2)

\* C9: no step removes a key from a store.
C9_KeysNeverShrink ==
    [][\A p \in Peers : DOMAIN store[p] \subseteq DOMAIN store'[p]]_vars

\* Two ids are stored after a flush failed, a remote state was merged and
\* GetAll returned both records.
C9_Witness ==
    /\ lastFlush.res = "failed"
    /\ Cardinality(DOMAIN store[Self]) = 2
    /\ Len(readResult.res) = 2

(***************************************************************************)
(* SpecQueue: the CacheWriter alone, its callers seen while their send on  *)
(* cw.ch is pending.                                                       *)
(***************************************************************************)
\* Write calls in one run of SpecQueue: more than the channel's capacity.
MaxQueued == 5

\* Records handed to CacheWriter.Write.
QueueRecs == {RecC2, RecNoId}

\* make(chan metadata.FileMetadata, batchSize*2), line 91.
ChanCap == 2 * BatchSize

\* CacheWriter.Write is called: the caller stands at cw.ch <- meta.
WriteCall(r) ==
    /\ wpc # "off"
    /\ wr = <<>>
    /\ nWrites < MaxQueued
    /\ wr' = <<r>>
    /\ UNCHANGED <<swarmVars, indexVars, ch, batch, timer, wpc, trigger, tx, quit, wg, cpc,
                   nWrites, written, lastFlush, lastWrite, readResult, serveVars, discVars, codecVars, fpVars, canonVars, fn>>

\* cw.ch <- meta completes: a send on a buffered channel proceeds when the
\* buffer has room and blocks while it is full (the worker receives only in
\* its select).  Write returns.
WriteSend ==
    /\ wr # <<>>
    /\ Len(ch) < ChanCap
    /\ ch' = Append(ch, wr[1])
    /\ wr' = <<>>
    /\ nWrites' = nWrites + 1
    /\ written' = IF quit THEN written ELSE written \cup {wr[1]}
    /\ UNCHANGED <<swarmVars, indexVars, batch, timer, wpc, trigger, tx, quit, wg, cpc,
                   lastFlush, lastWrite, readResult, serveVars, discVars, codecVars, fpVars, canonVars, fn>>

QueueNext ==
    \/ \E r \in QueueRecs : WriteCall(r)
    \/ WriteSend
    \/ TimerFires
    \/ WorkerRecv
    \/ WorkerTimer
    \/ WorkerFlushNow
    \/ WorkerQuit
    \/ FlushPut
    \/ FlushCommit
    \/ CloseCall
    \/ CloseWait

SpecQueue == CacheInit /\ [][QueueNext]_vars

\* The runtime fires an armed timer when flushInterval has elapsed; the
\* worker goroutine is scheduled as long as it can take a step.  No
\* fairness for the callers of Write, FlushNow and Close.
SpecQueueFair ==
    /\ SpecQueue
    /\ WF_vars(TimerFires)
    /\ WF_vars(WorkerRecv \/ WorkerTimer \/ WorkerQuit \/ FlushPut \/ FlushCommit)

\* C22: a caller of Write never waits: whenever a Write call stands at its
\* send, the channel has room, so the send completes at once whatever the
\* worker is doing.
C22_WriteNeverBlocks == wr # <<>> => Len(ch) < ChanCap

\* C23: when the worker takes the timer case with records in its batch, it
\* flushes the whole batch, also a batch shorter than batchSize; with an
\* empty batch it starts no transaction and leaves the store alone; and a
\* record in the batch does not stay there: with no other trigger the timer
\* fires and the batch is flushed.
C23_TimerFlushesBatch ==
    /\ [][(wpc = "select" /\ timer = "fired" /\ timer' # "fired")
             => IF batch # <<>>
                THEN /\ wpc' = "flush"
                     /\ trigger' = "timer"
                     /\ tx' = BeginTx(store[Self])
                     /\ batch' = batch
                ELSE /\ wpc' = "select"
                     /\ tx' = NoTx
                     /\ store' = store]_vars
    /\ (batch # <<>>) ~> (batch = <<>>)

\* The timer case is flushing a batch of one record, fewer than batchSize:
\* the record is written in the transaction that is about to commit.
C23_Witness ==
    /\ wpc = "flush"
    /\ trigger = "timer"
    /\ batch = <<RecC2>>
    /\ Len(batch) < BatchSize
    /\ tx.i > Len(batch)
    /\ RecC2.id \in DOMAIN tx.data
    /\ ~quit

\* C24: when a flush triggered by the batch size, by the timer or by
\* flushNow is over and the worker is back at its select, the timer has
\* been restarted: it is armed, with no expiry pending.
C24_TimerResetAfterEveryFlush ==
    [][(wpc = "flush" /\ wpc' = "select") => timer' = "armed"]_vars

\* C36: when a batch write fails the store is as it was before the flush,
\* the batch is dropped and none of its records is put back into the
\* channel, and the worker is back at its select (it stops only if the
\* flush was the one Close asked for): the records are never retried, and
\* later records are batched and flushed as before.
C36_FailedBatchDropped ==
    [][(wpc = "flush" /\ wpc' # "flush" /\ lastFlush'.res = "failed") =>
          /\ store'[Self] = tx.pre
          /\ batch' = <<>>
          /\ ch' = ch
          /\ wr' = wr
          /\ wpc' = IF trigger = "quit" THEN "stopped" ELSE "select"
       ]_vars

\* C36, its case reached: the record with the empty id was written and is
\* nowhere in the cache any more, so its batch has failed; the flush after
\* that one succeeded and stored a record written later, and the worker is
\* at its select.
C36_Witness ==
    /\ RecNoId \in written
    /\ ch = <<>>
    /\ batch = <<>>
    /\ wr = <<>>
    /\ wpc = "select"
    /\ ~quit
    /\ lastFlush.res = "ok"
    /\ RecC2.id \in DOMAIN store[Self]
    /\ "" \notin DOMAIN store[Self]

(***************************************************************************)
(* SpecFlushNow: the CacheWriter with callers of Write and one caller of   *)
(* FlushNow that is followed from its call to its return.                  *)
(***************************************************************************)
\* CacheWriter.FlushNow is called: the caller is at cw.flushNowCh <-
\* struct{}{}, a send on an unbuffered channel.
FlushNowCall ==
    /\ wpc # "off"
    /\ fn.pc = "idle"
    /\ fn' = [pc |-> "sending", before |-> written]
    /\ UNCHANGED <<swarmVars, indexVars, ch, batch, timer, wpc, trigger, tx, quit, wg, cpc,
                   nWrites, written, lastFlush, lastWrite, readResult, wr, serveVars,
                   discVars, codecVars, fpVars, canonVars>>

\* The worker's select takes case <-cw.flushNowCh: the send completes and
\* FlushNow returns, while the worker goes on into the case's body.
FlushNowServe ==
    /\ fn.pc = "sending"
    /\ FlushNowCase
    /\ fn' = [fn EXCEPT !.pc = "returned"]

FlushNowNext ==
    \/ \E r \in QueueRecs : Write(r)
    \/ FlushNowCall
    \/ FlushNowServe
    \/ TimerFires
    \/ WorkerRecv
    \/ WorkerTimer
    \/ FlushPut
    \/ FlushCommit

SpecFlushNow == CacheInit /\ [][FlushNowNext]_vars

\* C37: once FlushNow has returned, every record whose Write had returned
\* before FlushNow was called is in the store, provided no record was
\* written whose put fails.
C37_FlushNowStoresAll ==
    (fn.pc = "returned" /\ \A r \in written : r.id # "")
        => \A r \in fn.before : r.id \in DOMAIN store[Self]

(***************************************************************************)
(* SpecServe: the swarm delegate's callbacks and GET /_changes on host A.  *)
(***************************************************************************)
\* A record with a third id, as another member encoded it.
RecG ==
    NewMetadata("hostC", [path |-> "nas:/export:/g", modTime |-> "2026-01-05T00:00:00Z",
                          size |-> I64(0, 0, 7), blake3 |-> "d5"])

\* Payloads handed to NotifyMsg: records, one with an empty id, bytes that
\* are not JSON, a JSON array, the text null.
ServeMsgs ==
    { ObjBlob(MarshalValue(RecC1)), ObjBlob(MarshalValue(RecC2)),
      ObjBlob(MarshalJSON(RecC3)), ObjBlob(MarshalValue(RecF)),
      ObjBlob(MarshalValue(RecNoId)), BadBlob, ArrBlob(<<MarshalValue(RecF)>>), NullBlob }

\* Remote states handed to MergeRemoteState: an array whose second record
\* has an empty id, bytes that are not JSON, a JSON object, the text null.
ServeStates ==
    { ArrBlob(<<MarshalValue(RecF), MarshalValue(RecNoId), MarshalValue(RecG)>>),
      BadBlob, ObjBlob(MarshalValue(RecC2)), NullBlob }

ServeInit ==
    SwarmIdle /\ IndexIdle /\ CacheIdle /\ ServeIdle /\ DiscIdle /\ CodecIdle /\ FpIdle /\ CanonIdle

\* json.Unmarshal(msg, &meta) returns an error.
NotifyDecodeFails(msg) == msg.kind \in {"invalid", "array"}

\* json.Unmarshal(buf, &metas) returns an error.
MergeDecodeFails(buf) == buf.kind \in {"invalid", "object"}

\* The membership library hands a user message to NotifyMsg.
ServeNotify(m) ==
    /\ store' = [store EXCEPT ![Self] = NotifyMsgStore(store[Self], m)]
    /\ lastCall' = [op |-> "NotifyMsg", arg |-> m, pre |-> store[Self], resp |-> BadBlob]
    /\ badSeen' = (badSeen \/ NotifyDecodeFails(m))
    /\ UNCHANGED <<swarmRest, indexVars, cacheVars, peerList, peerListMutex, req, nReq,
                   discVars, codecVars, fpVars, canonVars>>

\* A push/pull hands the remote state to MergeRemoteState.
ServeMerge(buf) ==
    /\ store' = [store EXCEPT ![Self] = MergeRemoteState(store[Self], buf)]
    /\ lastCall' = [op |-> "MergeRemoteState", arg |-> buf, pre |-> store[Self],
                    resp |-> BadBlob]
    /\ badSeen' = (badSeen \/ MergeDecodeFails(buf))
    /\ UNCHANGED <<swarmRest, indexVars, cacheVars, peerList, peerListMutex, req, nReq,
                   discVars, codecVars, fpVars, canonVars>>

\* GET /_changes: GetAll, then json.NewEncoder(w).Encode(metas).
ServeChanges ==
    /\ lastCall' = [op |-> "/_changes", arg |-> BadBlob, pre |-> store[Self],
                    resp |-> MarshalSlice(GetAll(store[Self]))]
    /\ UNCHANGED <<swarmVars, indexVars, cacheVars, peerList, peerListMutex, req, nReq,
                   badSeen, discVars, codecVars, fpVars, canonVars>>

ServeNext ==
    \/ \E m \in ServeMsgs : ServeNotify(m)
    \/ \E buf \in ServeStates : ServeMerge(buf)
    \/ ServeChanges

SpecServe == ServeInit /\ [][ServeNext]_vars

(***************************************************************************)
(* Properties of the delegate callbacks and of /_changes under SpecServe.  *)
(***************************************************************************)
\* C11: a NotifyMsg or MergeRemoteState whose payload cannot be decoded
\* leaves the store as it was, and a NotifyMsg with a decodable record that
\* has an id stores that record, whatever was delivered before.
C11_BadPayloadHarmless ==
    /\ (lastCall.op = "NotifyMsg" /\ NotifyDecodeFails(lastCall.arg))
            => store[Self] = lastCall.pre
    /\ (lastCall.op = "MergeRemoteState" /\ MergeDecodeFails(lastCall.arg))
            => store[Self] = lastCall.pre
    /\ (lastCall.op = "NotifyMsg" /\ lastCall.arg.kind = "object")
            => LET meta == UnmarshalJSON(lastCall.arg.objs[1])
               IN  meta.id # ""
                     => /\ meta.id \in DOMAIN store[Self]
                        /\ store[Self][meta.id] = MarshalValue(meta)

\* An undecodable payload was delivered, and the record of a later NotifyMsg
\* is in the store.
C11_Witness ==
    /\ badSeen
    /\ lastCall.op = "NotifyMsg"
    /\ lastCall.arg = ObjBlob(MarshalValue(RecC1))
    /\ RecC1.id \notin DOMAIN lastCall.pre
    /\ RecC1.id \in DOMAIN store[Self]

\* C12: after MergeRemoteState on a decodable array, every record of the
\* array that has an id (and is the last one of the array with that id) is
\* in the store, also when the Put of another record of the array failed.
C12_MergeSkipsFailedPut ==
    (lastCall.op = "MergeRemoteState" /\ lastCall.arg.kind = "array")
        => LET metas == [i \in 1..Len(lastCall.arg.objs) |->
                            UnmarshalJSON(lastCall.arg.objs[i])]
           IN  \A i \in 1..Len(metas) :
                   (/\ metas[i].id # ""
                    /\ \A j \in (i + 1)..Len(metas) : metas[j].id # metas[i].id)
                   => /\ metas[i].id \in DOMAIN store[Self]
                      /\ store[Self][metas[i].id] = MarshalValue(metas[i])

\* The array whose second record has an empty id was merged into an empty
\* store: the first and the third record are stored.
C12_Witness ==
    /\ lastCall.op = "MergeRemoteState"
    /\ lastCall.arg.kind = "array"
    /\ Len(lastCall.arg.objs) = 3
    /\ UnmarshalJSON(lastCall.arg.objs[2]).id = ""
    /\ lastCall.pre = EmptyBucket
    /\ DOMAIN store[Self] = {RecF.id, RecG.id}

\* C16: the body of a /_changes response is a JSON array with one element
\* per id in the store, the empty array for the empty store.
C16_ChangesIsArray ==
    lastCall.op = "/_changes"
        => /\ lastCall.resp.kind = "array"
           /\ Len(lastCall.resp.objs) = Cardinality(DOMAIN lastCall.pre)

\* C26: after a NotifyMsg that delivered a record with an id, the store
\* returns that record from GetAll, equal in the known fields and in extra.
C26_StoreKeepsWholeRecord ==
    (lastCall.op = "NotifyMsg" /\ lastCall.arg.kind = "object"
       /\ UnmarshalJSON(lastCall.arg.objs[1]).id # "")
        => UnmarshalJSON(lastCall.arg.objs[1]) \in View(store[Self])

(***************************************************************************)
(* SpecPeers: GET /peerlist requests served concurrently on host A.        *)
(***************************************************************************)
\* Requests accepted in one run.
MaxRequests == 3

\* viper.GetInt("swarmPort"), as %d prints it.
SwarmPort == "7946"

\* r.RemoteAddr of the callers: two connections of one host, one of another.
RemoteAddrs ==
    { [host |-> "10.0.0.1", port |-> "5000"], [host |-> "10.0.0.1", port |-> "5001"],
      [host |-> "10.0.0.2", port |-> "5000"] }

\* net.SplitHostPort(r.RemoteAddr): the host part.
SplitHostPort(remote) == remote.host

\* fmt.Sprintf("%s:%d", host, viper.GetInt("swarmPort")).
PeerAddr(remote) == SplitHostPort(remote) \o ":" \o SwarmPort

PeersInit ==
    SwarmIdle /\ IndexIdle /\ CacheIdle /\ ServeIdle /\ DiscIdle /\ CodecIdle /\ FpIdle /\ CanonIdle

\* A mutex that admits every caller.
TryLockAlways(mu) == TRUE

\* peerListMutex.Lock() returns when no one holds the mutex.
TryLock(mu) == mu = "none"

\* net/http starts the handler on its own goroutine: peerAddr is computed.
PeerListArrive(c, remote) ==
    /\ req[c].pc \in {"idle", "done"}
    /\ nReq < MaxRequests
    /\ nReq' = nReq + 1
    /\ req' = [req EXCEPT ![c] = [pc |-> "parsed", remote |-> remote,
                                  peerAddr |-> PeerAddr(remote), found |-> FALSE,
                                  resp |-> <<>>]]
    /\ UNCHANGED <<swarmVars, indexVars, cacheVars, peerList, peerListMutex, lastCall,
                   badSeen, discVars, codecVars, fpVars, canonVars>>

\* peerListMutex.Lock().
PeerListLock(c) ==
    /\ req[c].pc = "parsed"
    /\ TryLock(peerListMutex)
    /\ peerListMutex' = c
    /\ req' = [req EXCEPT ![c].pc = "locked"]
    /\ UNCHANGED <<swarmVars, indexVars, cacheVars, peerList, nReq, lastCall, badSeen,
                   discVars, codecVars, fpVars, canonVars>>

\* The loop over peerList that sets found.
PeerListScan(c) ==
    /\ req[c].pc = "locked"
    /\ req' = [req EXCEPT ![c].pc = "scanned",
                          ![c].found = (req[c].peerAddr \in Range(peerList))]
    /\ UNCHANGED <<swarmVars, indexVars, cacheVars, peerList, peerListMutex, nReq,
                   lastCall, badSeen, discVars, codecVars, fpVars, canonVars>>

\* if !found { peerList = append(peerList, peerAddr) }.
PeerListAppend(c) ==
    /\ req[c].pc = "scanned"
    /\ peerList' = IF req[c].found THEN peerList ELSE Append(peerList, req[c].peerAddr)
    /\ req' = [req EXCEPT ![c].pc = "appended"]
    /\ UNCHANGED <<swarmVars, indexVars, cacheVars, peerListMutex, nReq, lastCall,
                   badSeen, discVars, codecVars, fpVars, canonVars>>

\* json.NewEncoder(w).Encode(peerList), then the deferred Unlock.
PeerListRespond(c) ==
    /\ req[c].pc = "appended"
    /\ req' = [req EXCEPT ![c].pc = "done", ![c].resp = peerList]
    /\ peerListMutex' = "none"
    /\ UNCHANGED <<swarmVars, indexVars, cacheVars, peerList, nReq, lastCall, badSeen,
                   discVars, codecVars, fpVars, canonVars>>

PeersNext ==
    \/ \E c \in Conns, remote \in RemoteAddrs : PeerListArrive(c, remote)
    \/ \E c \in Conns : PeerListLock(c)
    \/ \E c \in Conns : PeerListScan(c)
    \/ \E c \in Conns : PeerListAppend(c)
    \/ \E c \in Conns : PeerListRespond(c)

SpecPeers == PeersInit /\ [][PeersNext]_vars

NoDuplicates(seq) == \A i, j \in 1..Len(seq) : seq[i] = seq[j] => i = j

\* C15: the registry never holds an address twice, and every response is a
\* duplicate-free registry that contains the address of its caller.
C15_RegistryDeduplicated ==
    /\ NoDuplicates(peerList)
    /\ \A c \in Conns :
           req[c].pc = "done"
               => /\ req[c].peerAddr = req[c].remote.host \o ":" \o SwarmPort
                  /\ req[c].peerAddr \in Range(req[c].resp)
                  /\ NoDuplicates(req[c].resp)

\* Two requests of the same host are in the handler at the same time: one
\* has just appended the host's address and still holds the mutex, the other
\* waits in Lock; an earlier request of another host was answered.
C15_Witness ==
    /\ req["c1"].pc = "appended"
    /\ ~req["c1"].found
    /\ req["c2"].pc = "parsed"
    /\ req["c1"].peerAddr = req["c2"].peerAddr
    /\ req["c1"].remote # req["c2"].remote
    /\ Len(peerList) = 2

(***************************************************************************)
(* SpecDisc: StartSwarm on host A, for every discovery configuration and   *)
(* every outcome of the discovery calls.                                   *)
(***************************************************************************)
LocalIP == "10.0.0.1"

\* viper's peerListURL, stealth and peers.
Configs ==
    [ peerListURL : {"", "http://seed:8080/peerlist"},
      stealth     : BOOLEAN,
      peers       : {<<>>, <<"10.0.0.9:7946">>} ]

\* What GetPeerListFromHTTP returns: an error, no peer, one peer.
HTTPOutcomes ==
    { [err |-> TRUE, peers |-> <<>>], [err |-> FALSE, peers |-> <<>>],
      [err |-> FALSE, peers |-> <<"10.0.0.8:7946">>] }

\* The AddrV4 of the service entries an mDNS query delivers.
MDNSEntries == { <<>>, <<"10.0.0.7">>, <<LocalIP, "10.0.0.7">>, <<"10.0.0.7", "10.0.0.6">> }

DiscInit ==
    /\ SwarmIdle
    /\ CodecIdle
    /\ FpIdle
    /\ CanonIdle
    /\ IndexIdle
    /\ CacheIdle
    /\ ServeIdle
    /\ cfg \in Configs
    /\ spc = "start"
    /\ ml = "nil"
    /\ discovered = <<>>
    /\ mdnsServer = "unset"
    /\ ops = {}
    /\ startResult = "none"
    /\ crashed = FALSE
    /\ delivered = <<>>

\* A selection that lets stealth win over the peer-list URL.
DiscoveryModeStealthFirst(c) ==
    IF c.stealth THEN "static"
    ELSE IF c.peerListURL # "" THEN "http" ELSE "mdns"

\* The if / else if / else of StartSwarm.
DiscoveryMode(c) ==
    IF c.peerListURL # "" THEN "http"
    ELSE IF ~c.stealth THEN "mdns" ELSE "static"

\* The goroutine's filter: entries with the local address are skipped, the
\* others get the swarm port.
RECURSIVE Discover(_)
Discover(entries) ==
    IF entries = <<>> THEN <<>>
    ELSE IF Head(entries) = LocalIP THEN Discover(Tail(entries))
    ELSE <<Head(entries) \o ":" \o SwarmPort>> \o Discover(Tail(entries))

\* memberlist.Create succeeds; NewSwarmDelegate.
CreateOk ==
    /\ spc = "start"
    /\ ml' = "created"
    /\ spc' = DiscoveryMode(cfg)
    /\ UNCHANGED <<swarmVars, indexVars, cacheVars, serveVars, cfg, discovered, mdnsServer,
                   ops, startResult, crashed, codecVars, fpVars, canonVars, delivered>>

\* memberlist.Create fails: StartSwarm returns nil, nil and the error.
CreateFails ==
    /\ spc = "start"
    /\ spc' = "returned"
    /\ startResult' = [ml |-> "nil", d |-> "nil", err |-> "failed to create memberlist"]
    /\ UNCHANGED <<swarmVars, indexVars, cacheVars, serveVars, cfg, ml, discovered,
                   mdnsServer, ops, crashed, codecVars, fpVars, canonVars, delivered>>

\* HTTP peer list: a lookup error and an empty list are logged, a
\* non-empty list is joined.
HTTPLookup(out) ==
    /\ spc = "http"
    /\ ops' = ops \cup {"http"}
    /\ discovered' = out.peers
    /\ spc' = IF ~out.err /\ Len(out.peers) > 0 THEN "joinHTTP" ELSE "return"
    /\ UNCHANGED <<swarmVars, indexVars, cacheVars, serveVars, cfg, ml, mdnsServer,
                   startResult, crashed, codecVars, fpVars, canonVars, delivered>>

\* Multicast: NewMDNSService, NewServer and the goroutine that shuts the
\* server down after ten minutes.  A service error skips server and
\* goroutine; a server error is logged and the goroutine holds a nil server.
MDNSAdvertise(out) ==
    /\ spc = "mdns"
    /\ out \in {"serviceError", "serverError", "ok"}
    /\ ops' = ops \cup {"advertise"}
    /\ mdnsServer' = CASE out = "serviceError" -> "unset"
                        [] out = "serverError"  -> "nil"
                        [] out = "ok"           -> "running"
    /\ spc' = "query"
    /\ UNCHANGED <<swarmVars, indexVars, cacheVars, serveVars, cfg, ml, discovered,
                   startResult, crashed, codecVars, fpVars, canonVars, delivered>>

\* mdns.Query (its error is dropped), close(entriesCh), len(discovered).
\* The collecting goroutine is not waited for: StartSwarm sees the
\* addresses it has appended so far, some prefix of all of them.
MDNSQuery(entries, seen) ==
    /\ spc = "query"
    /\ seen \in 0..Len(Discover(entries))
    /\ ops' = ops \cup {"query"}
    /\ discovered' = SubSeq(Discover(entries), 1, seen)
    /\ delivered' = entries
    /\ spc' = IF seen > 0 THEN "joinMDNS" ELSE "return"
    /\ UNCHANGED <<swarmVars, indexVars, cacheVars, serveVars, cfg, ml, mdnsServer,
                   startResult, crashed, codecVars, fpVars, canonVars>>

\* Stealth: viper.GetStringSlice("peers"), joined when not empty.
StaticPeers ==
    /\ spc = "static"
    /\ ops' = ops \cup {"static"}
    /\ discovered' = cfg.peers
    /\ spc' = IF Len(cfg.peers) > 0 THEN "joinStatic" ELSE "return"
    /\ UNCHANGED <<swarmVars, indexVars, cacheVars, serveVars, cfg, ml, mdnsServer,
                   startResult, crashed, codecVars, fpVars, canonVars, delivered>>

\* ml.Join(addresses): an error is logged, the count is logged.
Join(failed) ==
    /\ spc \in {"joinHTTP", "joinMDNS", "joinStatic"}
    /\ failed \in BOOLEAN
    /\ ops' = ops \cup {spc} \cup (IF failed THEN {"joinError"} ELSE {})
    /\ spc' = "return"
    /\ UNCHANGED <<swarmVars, indexVars, cacheVars, serveVars, cfg, ml, discovered,
                   mdnsServer, startResult, crashed, codecVars, fpVars, canonVars, delivered>>

\* return ml, d, nil.
StartSwarmReturns ==
    /\ spc = "return"
    /\ spc' = "returned"
    /\ startResult' = [ml |-> ml, d |-> "delegate", err |-> "nil"]
    /\ UNCHANGED <<swarmVars, indexVars, cacheVars, serveVars, cfg, ml, discovered,
                   mdnsServer, ops, crashed, codecVars, fpVars, canonVars, delivered>>

\* Ten minutes later the goroutine calls mdnsServer.Shutdown(): on a nil
\* *mdns.Server that is a nil pointer dereference, which ends the process.
MDNSShutdown ==
    /\ spc = "returned"
    /\ ~crashed
    /\ mdnsServer \in {"nil", "running"}
    /\ IF mdnsServer = "nil"
       THEN crashed' = TRUE /\ UNCHANGED mdnsServer
       ELSE mdnsServer' = "shutdown" /\ UNCHANGED crashed
    /\ UNCHANGED <<swarmVars, indexVars, cacheVars, serveVars, cfg, spc, ml, discovered,
                   ops, startResult, codecVars, fpVars, canonVars, delivered>>

DiscNext ==
    \/ CreateOk
    \/ CreateFails
    \/ \E out \in HTTPOutcomes : HTTPLookup(out)
    \/ \E out \in {"serviceError", "serverError", "ok"} : MDNSAdvertise(out)
    \/ \E entries \in MDNSEntries, seen \in 0..2 : MDNSQuery(entries, seen)
    \/ StaticPeers
    \/ \E failed \in BOOLEAN : Join(failed)
    \/ StartSwarmReturns
    \/ MDNSShutdown

SpecDisc == DiscInit /\ [][DiscNext]_vars

HTTPOps == {"http", "joinHTTP"}

MDNSOps == {"advertise", "query", "joinMDNS"}

StaticOps == {"static", "joinStatic"}

\* C13: StartSwarm runs the operations of one discovery mode only, chosen
\* by the precedence URL, multicast, stealth; when it has returned with a
\* membership, the chosen mode has run: the HTTP lookup iff peerListURL is
\* set, else advertisement and query iff stealth is off, else the static
\* peers (joined when there are any) with no mDNS at all.
C13_OneDiscoveryMode ==
    /\ cfg.peerListURL # "" => ops \cap (MDNSOps \cup StaticOps) = {}
    /\ (cfg.peerListURL = "" /\ ~cfg.stealth) => ops \cap (HTTPOps \cup StaticOps) = {}
    /\ (cfg.peerListURL = "" /\ cfg.stealth) => ops \cap (HTTPOps \cup MDNSOps) = {}
    /\ (spc = "returned" /\ ml = "created")
           => /\ "http" \in ops <=> cfg.peerListURL # ""
              /\ {"advertise", "query"} \subseteq ops
                     <=> (cfg.peerListURL = "" /\ ~cfg.stealth)
              /\ "static" \in ops <=> (cfg.peerListURL = "" /\ cfg.stealth)
              /\ "joinStatic" \in ops
                     <=> (cfg.peerListURL = "" /\ cfg.stealth /\ cfg.peers # <<>>)

\* URL, stealth and static peers are all configured: StartSwarm returned
\* after the HTTP lookup.
C13_Witness ==
    /\ spc = "returned"
    /\ ml = "created"
    /\ cfg.peerListURL # ""
    /\ cfg.stealth
    /\ cfg.peers # <<>>
    /\ "http" \in ops

\* C14: once the membership is created, no outcome of discovery stops the
\* node: StartSwarm returns the handle, the delegate and a nil error, and
\* the process keeps running; StartSwarm returns an error only when the
\* membership could not be created.
C14_DiscoveryFailureKeepsNodeRunning ==
    /\ (spc = "returned" /\ ml = "created")
           => startResult = [ml |-> "created", d |-> "delegate", err |-> "nil"]
    /\ (spc = "returned" /\ ml = "nil") => startResult.err # "nil"
    /\ ml = "created" => ~crashed

\* C38: in multicast mode, when the query has returned, the list of
\* addresses StartSwarm goes on with holds the address of every entry the
\* query delivered that is not the node's own, and does not hold the
\* node's own address.
C38_AllEntriesCollected ==
    ("query" \in ops /\ spc \in {"joinMDNS", "return", "returned"}) =>
        /\ \A i \in 1..Len(delivered) :
              delivered[i] # LocalIP
                  => \E j \in 1..Len(discovered) : discovered[j] = delivered[i] \o ":" \o SwarmPort
        /\ \A j \in 1..Len(discovered) : discovered[j] # LocalIP \o ":" \o SwarmPort

\* C39: when StartSwarm has returned with a membership and --peers is not
\* empty, the static peers were joined, whatever the discovery mode.
C39_StaticPeersAlwaysJoined ==
    (spc = "returned" /\ ml = "created" /\ cfg.peers # <<>>) => "joinStatic" \in ops

(***************************************************************************)
(* SpecCodec: FileMetadata.MarshalJSON followed by UnmarshalJSON on one    *)
(* record.                                                                 *)
(***************************************************************************)
\* 2^53, the largest size up to which every integer is a float64.
ExactSize == I64(2^11, 0, 0)

\* Sizes of the records encoded.
CodecSizes == {Zero64, I64(0, 0, 3000), ExactSize, BigSize}

\* Extra maps of the records encoded: none, a string, a number, two
\* entries, a number beyond 2^53, and a key that is a known field name.
CodecExtras ==
    { <<>>,
      "tag" :> JStr("a"),
      "count" :> JNum(I64(0, 0, 7)),
      ("tag" :> JStr("a")) @@ ("owner" :> JStr("bw")),
      "inode" :> JNum(BigSize),
      "size" :> JStr("big") }

\* The records handed to MarshalJSON.
CodecRecs ==
    { [RecC2 EXCEPT !.id = i, !.size = n, !.extra = x] :
        i \in {"", RecC2.id}, n \in CodecSizes, x \in CodecExtras }

CodecInit ==
    /\ SwarmIdle
    /\ IndexIdle
    /\ CacheIdle
    /\ ServeIdle
    /\ DiscIdle
    /\ FpIdle
    /\ CanonIdle
    /\ fm \in CodecRecs
    /\ enc = <<>>
    /\ dec = <<>>
    /\ mpc = "new"

\* data, _ := fm.MarshalJSON()
Encode ==
    /\ mpc = "new"
    /\ enc' = MarshalJSON(fm)
    /\ mpc' = "encoded"
    /\ UNCHANGED <<swarmVars, indexVars, cacheVars, serveVars, discVars, fm, dec, fpVars, canonVars>>

\* out.UnmarshalJSON(data) on a fresh FileMetadata.
Decode ==
    /\ mpc = "encoded"
    /\ dec' = UnmarshalJSON(enc)
    /\ mpc' = "decoded"
    /\ UNCHANGED <<swarmVars, indexVars, cacheVars, serveVars, discVars, fm, enc, fpVars, canonVars>>

CodecNext == Encode \/ Decode

SpecCodec == CodecInit /\ [][CodecNext]_vars

\* C25: a record whose extra keys are no known field names is decoded from
\* its encoding unchanged, in the seven known fields and in extra, and its
\* encoding has every extra entry as a top-level member.
C25_RoundTrip ==
    (mpc = "decoded" /\ DOMAIN fm.extra \cap KnownKeys = {})
        => /\ dec = fm
           /\ \A k \in DOMAIN fm.extra : k \in DOMAIN enc /\ enc[k] = fm.extra[k]


(***************************************************************************)
(* SpecFp: one call of FingerprintFile on one file.                        *)
(***************************************************************************)
\* fileSampleSize, scaled down from 1 << 20: the window, in bytes.
W == 2

\* The longest file fingerprinted: one byte more than three windows.
MaxFileLen == 7

Byte == {0, 1}

\* The files: every byte sequence up to MaxFileLen.
FpFiles == UNION {[1..n -> Byte] : n \in 0..MaxFileLen}

\* Bytes [from, from + n) of a file.
Window(b, from, n) == SubSeq(b, from + 1, from + n)

\* make([]byte, n): n zero bytes.
Zeros(n) == [i \in 1..n |-> 0]

\* blake3.Sum256(data), printed with %x: a digest that stands for exactly
\* the bytes hashed (collisions are left out).
Blake3(d) == [blake3 |-> d]

\* A middle window that starts where the head window ends.
MidOffsetAfterHead(size) == W

\* midOffset := info.Size() / 2
MidOffset(size) == size \div 2

\* tailOffset := info.Size() - fileSampleSize
TailOffset(size) == size - W

FpInit ==
    /\ SwarmIdle
    /\ IndexIdle
    /\ CacheIdle
    /\ ServeIdle
    /\ DiscIdle
    /\ CodecIdle
    /\ CanonIdle
    /\ fbytes \in FpFiles
    /\ fsize = 0
    /\ fdata = <<>>
    /\ fpc = "open"
    /\ fret = NoDigest
    /\ fshort = FALSE

fpFrame == <<swarmVars, indexVars, cacheVars, serveVars, discVars, codecVars, canonVars,
            fbytes>>

\* return "", fmt.Errorf("<what>: %w", err)
FpFail(what) ==
    /\ fret' = [digest |-> <<>>, err |-> what]
    /\ fpc' = "returned"

\* os.Open(path)
FpOpen(ok) ==
    /\ fpc = "open"
    /\ IF ok THEN fpc' = "stat" /\ UNCHANGED fret ELSE FpFail("open file")
    /\ UNCHANGED <<fpFrame, fsize, fdata, fshort>>

\* f.Stat(), then the choice between the whole file and the three windows.
FpStat(ok) ==
    /\ fpc = "stat"
    /\ IF ok
       THEN /\ fsize' = Len(fbytes)
            /\ fpc' = IF Len(fbytes) < 3 * W THEN "readall" ELSE "head"
            /\ UNCHANGED fret
       ELSE FpFail("stat file") /\ UNCHANGED fsize
    /\ UNCHANGED <<fpFrame, fdata, fshort>>

\* io.ReadAll(f): everything up to EOF, or an error.
FpReadAll(ok) ==
    /\ fpc = "readall"
    /\ IF ok
       THEN fdata' = fbytes /\ fpc' = "hash" /\ UNCHANGED fret
       ELSE FpFail("read file") /\ UNCHANGED fdata
    /\ UNCHANGED <<fpFrame, fsize, fshort>>

\* f.Read(head): one read call.  It may fail, or deliver n bytes, 0 < n <=
\* len(head), with a nil error; the count is dropped and the whole buffer,
\* its unfilled rest still zero, is appended to data.
FpReadHead(n) ==
    /\ fpc = "head"
    /\ n \in 0..W
    /\ IF n = 0
       THEN FpFail("read head") /\ UNCHANGED <<fdata, fshort>>
       ELSE /\ fdata' = Window(fbytes, 0, n) \o Zeros(W - n)
            /\ fshort' = (n < W)
            /\ fpc' = "mid"
            /\ UNCHANGED fret
    /\ UNCHANGED <<fpFrame, fsize>>

\* f.Seek(midOffset, io.SeekStart), then io.ReadFull(f, mid): all of the
\* window or an error.
FpReadMid(res) ==
    /\ fpc = "mid"
    /\ res \in {"ok", "seek middle", "read middle"}
    /\ IF res = "ok"
       THEN /\ fdata' = fdata \o Window(fbytes, MidOffset(fsize), W)
            /\ fpc' = "tail"
            /\ UNCHANGED fret
       ELSE FpFail(res) /\ UNCHANGED fdata
    /\ UNCHANGED <<fpFrame, fsize, fshort>>

\* f.Seek(tailOffset, io.SeekStart), then io.ReadFull(f, tail).
FpReadTail(res) ==
    /\ fpc = "tail"
    /\ res \in {"ok", "seek tail", "read tail"}
    /\ IF res = "ok"
       THEN /\ fdata' = fdata \o Window(fbytes, TailOffset(fsize), W)
            /\ fpc' = "hash"
            /\ UNCHANGED fret
       ELSE FpFail(res) /\ UNCHANGED fdata
    /\ UNCHANGED <<fpFrame, fsize, fshort>>

\* hash := blake3.Sum256(data); return fmt.Sprintf("%x", hash), nil
FpHash ==
    /\ fpc = "hash"
    /\ fret' = [digest |-> Blake3(fdata), err |-> ""]
    /\ fpc' = "returned"
    /\ UNCHANGED <<fpFrame, fsize, fdata, fshort>>

FpNext ==
    \/ \E ok \in BOOLEAN : FpOpen(ok)
    \/ \E ok \in BOOLEAN : FpStat(ok)
    \/ \E ok \in BOOLEAN : FpReadAll(ok)
    \/ \E n \in 0..W : FpReadHead(n)
    \/ \E res \in {"ok", "seek middle", "read middle"} : FpReadMid(res)
    \/ \E res \in {"ok", "seek tail", "read tail"} : FpReadTail(res)
    \/ FpHash

SpecFp == FpInit /\ [][FpNext]_vars

\* FingerprintFile returned a digest.
FpDigest == fpc = "returned" /\ fret.err = ""

\* The three windows of a file of at least 3W bytes.
Sampled(b) ==
    Window(b, 0, W) \o Window(b, Len(b) \div 2, W) \o Window(b, Len(b) - W, W)

\* C28: when every read delivered what it was asked for, the digest of a
\* file shorter than 3W is the hash of the whole file, and the digest of a
\* file of 3W bytes or more is the hash of bytes [0, W), [size/2, size/2 + W)
\* and [size - W, size) in this order: the other bytes have no part in it.
C28_DigestOfWindows ==
    (FpDigest /\ ~fshort)
        => fret.digest = Blake3(IF Len(fbytes) < 3 * W THEN fbytes ELSE Sampled(fbytes))

\* A file of 3W + 1 bytes whose only non-zero byte lies in none of the
\* windows has the digest of six zero bytes.
C28_Witness ==
    /\ FpDigest
    /\ ~fshort
    /\ fbytes = <<0, 0, 1, 0, 0, 0, 0>>
    /\ fret.digest = Blake3(Zeros(3 * W))

\* C29: the digest of a file of exactly 3W bytes is the hash of the file.
C29_ThreeWindowsTile ==
    (FpDigest /\ ~fshort /\ Len(fbytes) = 3 * W) => fret.digest = Blake3(fbytes)

\* C30: when a read delivered fewer bytes than its window, FingerprintFile
\* returns an error and no digest; and an error never comes with a digest.
C30_NoDigestOfPartialData ==
    /\ (fpc = "returned" /\ fshort) => (fret.err # "" /\ fret.digest = <<>>)
    /\ (fpc = "returned" /\ fret.err # "") => fret.digest = <<>>


(***************************************************************************)
(* SpecCanon: CanonicalizePath (pkg/fileprocessor/fileprocessor.go 60-107) *)
(* as a function of runtime.GOOS, the mount table and the path.  Paths,    *)
(* mountpoints, devices and file-system types are strings; the string      *)
(* functions of the Go library are computed character by character.        *)
(***************************************************************************)
\* strings.HasPrefix(s, prefix)
HasPrefix(s, prefix) ==
    /\ Len(prefix) <= Len(s)
    /\ SubSeq(s, 1, Len(prefix)) = prefix

\* s[n:]
From(s, n) == SubSeq(s, n + 1, Len(s))

\* strings.Index(s, sep) for a one-character sep, 0-based; -1 when absent.
RECURSIVE IndexFrom(_, _, _)
IndexFrom(s, sep, i) ==
    IF i > Len(s) THEN -1
    ELSE IF SubSeq(s, i, i) = sep THEN i - 1
    ELSE IndexFrom(s, sep, i + 1)

Index(s, sep) == IndexFrom(s, sep, 1)

\* strings.SplitN(s, sep, n) for n >= 1: at most n substrings, the last one
\* the unsplit remainder.
RECURSIVE SplitN(_, _, _)
SplitN(s, sep, n) ==
    IF n = 1 \/ Index(s, sep) = -1 THEN <<s>>
    ELSE <<SubSeq(s, 1, Index(s, sep))>> \o SplitN(From(s, Index(s, sep) + 1), sep, n - 1)

UpperLetters == "ABCDEFGHIJKLMNOPQRSTUVWXYZ"
LowerLetters == "abcdefghijklmnopqrstuvwxyz"

\* unicode.ToLower on one ASCII character.
LowerChar(c) ==
    IF Index(UpperLetters, c) = -1 THEN c
    ELSE SubSeq(LowerLetters, Index(UpperLetters, c) + 1, Index(UpperLetters, c) + 1)

\* strings.ToLower(s)
RECURSIVE ToLower(_)
ToLower(s) ==
    IF s = "" THEN "" ELSE LowerChar(SubSeq(s, 1, 1)) \o ToLower(From(s, 1))

\* disk.PartitionStat, the fields CanonicalizePath reads.
Partition(mountpoint, fstype, device) ==
    [Mountpoint |-> mountpoint, Fstype |-> fstype, Device |-> device]

\* The zero PartitionStat (var bestMatch disk.PartitionStat).
NoPartition == Partition("", "", "")

\* Lines 67-72: the UNC branch once the leading \\ was seen.  The result of
\* SplitN decides; with fewer than two parts the path is returned as it is.
CanonicalizeUNC(path) ==
    LET parts == SplitN(From(path, 2), "\\", 3)
        rest  == IF Len(parts) = 3 THEN "/" \o parts[3] ELSE ""
    IN  IF Len(parts) >= 2
          THEN parts[1] \o ":" \o parts[2] \o rest
          ELSE path

\* Lines 83-89: the loop over the partitions; a later partition replaces the
\* best one only when its mountpoint is strictly longer.
RECURSIVE BestMatch(_, _, _)
BestMatch(path, parts, best) ==
    IF parts = <<>> THEN best
    ELSE BestMatch(path, Tail(parts),
                   IF HasPrefix(path, Head(parts).Mountpoint)
                      /\ Len(Head(parts).Mountpoint) > Len(best.Mountpoint)
                     THEN Head(parts) ELSE best)

\* A mutation: the file-system type is looked up as it is spelled.
IsNetworkFSCaseSensitive(fstype) ==
    fstype \in {"nfs", "nfs4", "cifs", "smbfs", "afp"}

\* Lines 91-98: networkFSTypes[strings.ToLower(bestMatch.Fstype)]
IsNetworkFS(fstype) ==
    ToLower(fstype) \in {"nfs", "nfs4", "cifs", "smbfs", "afp"}

\* Lines 99-103: the path below the mountpoint, with one leading slash,
\* behind the device.
DevicePath(path, m) ==
    LET relPath == From(path, Len(m.Mountpoint))
    IN  m.Device \o ":" \o (IF HasPrefix(relPath, "/") THEN relPath ELSE "/" \o relPath)

\* CanonicalizePath(absPath) under GOOS os, with GetPartitions returning table.
CanonicalizePath(os, table, path) ==
    IF os = "windows"
      THEN [path |-> IF HasPrefix(path, "\\\\") THEN CanonicalizeUNC(path) ELSE path,
            err  |-> FALSE]
    ELSE IF table.err
      THEN [path |-> path, err |-> TRUE]
    ELSE LET bestMatch == BestMatch(path, table.parts, NoPartition)
         IN  [path |-> IF Len(bestMatch.Mountpoint) > 0 /\ IsNetworkFS(bestMatch.Fstype)
                         THEN DevicePath(path, bestMatch)
                         ELSE path,
              err  |-> FALSE]

\* The paths handed in: UNC paths with and without a remainder, a drive
\* path, and paths below, beside and on the mountpoints of MountTables.
CanonPaths ==
    { "\\\\server\\share\\dir\\f.txt", "\\\\server\\share\\f.txt", "\\\\server\\share",
      "\\\\server", "C:\\dir\\f.txt",
      "/mnt/data/sub/x", "/mnt/data", "/mnt/database/x", "/mnt/x", "/home/u/f",
      "/nas/x", "/" }

\* The mount tables GetPartitions returns, and its failure.
MountTables ==
    { [err |-> TRUE, parts |-> <<>>],
      [err |-> FALSE, parts |-> <<>>],
      [err |-> FALSE, parts |-> << Partition("/", "ext4", "/dev/sda1"),
                                   Partition("/mnt/data", "nfs4", "host:/export") >>],
      [err |-> FALSE, parts |-> << Partition("/", "ext4", "/dev/sda1"),
                                   Partition("/mnt", "nfs", "host:/export"),
                                   Partition("/mnt/data", "ext4", "/dev/sdb1") >>],
      [err |-> FALSE, parts |-> << Partition("/mnt/data", "autofs", "auto.data"),
                                   Partition("/mnt/data", "NFS4", "host:/export"),
                                   Partition("/home", "xfs", "/dev/sdc1") >>],
      [err |-> FALSE, parts |-> << Partition("/", "nfs", "boot:/root"),
                                   Partition("/nas", "CIFS", "//nas/share") >>] }

CanonInit ==
    /\ SwarmIdle
    /\ IndexIdle
    /\ CacheIdle
    /\ ServeIdle
    /\ DiscIdle
    /\ CodecIdle
    /\ FpIdle
    /\ goos \in {"windows", "linux"}
    /\ partitions \in MountTables
    /\ absPath \in CanonPaths
    /\ canon = <<>>

canonFrame == <<swarmVars, indexVars, cacheVars, serveVars, discVars, codecVars, fpVars,
               goos, partitions, absPath>>

\* CanonicalizePath(absPath)
Canonicalize ==
    /\ canon = <<>>
    /\ canon' = <<CanonicalizePath(goos, partitions, absPath)>>
    /\ UNCHANGED canonFrame

\* CanonicalizePath applied to the path it returned, on the same machine.
CanonicalizeAgain ==
    /\ Len(canon) = 1
    /\ canon' = Append(canon, CanonicalizePath(goos, partitions, canon[1].path))
    /\ UNCHANGED canonFrame

CanonNext ==
    \/ Canonicalize
    \/ CanonicalizeAgain

SpecCanon == CanonInit /\ [][CanonNext]_vars

\* True of a path of the form \\server\share or \\server\share\rest.
IsUNC(path) ==
    /\ HasPrefix(path, "\\\\")
    /\ Len(SplitN(From(path, 2), "\\", 3)) >= 2

\* strings.ReplaceAll(s, old, new) for one-character old.
RECURSIVE ReplaceAll(_, _, _)
ReplaceAll(s, old, new) ==
    IF s = "" THEN ""
    ELSE (IF SubSeq(s, 1, 1) = old THEN new ELSE SubSeq(s, 1, 1)) \o ReplaceAll(From(s, 1), old, new)

\* The form the specification gives a UNC path: server:/share/rest with
\* the separators of rest turned into slashes, server:/share without rest.
SlashForm(path) ==
    LET parts == SplitN(From(path, 2), "\\", 3)
    IN  parts[1] \o ":/" \o parts[2]
          \o (IF Len(parts) = 3 THEN "/" \o ReplaceAll(parts[3], "\\", "/") ELSE "")

\* C31: on Windows a UNC path \\server\share\rest is returned as
\* server:/share/rest with the backslashes of rest turned into slashes, and
\* \\server\share as server:/share.
C31_UNCSlashForm ==
    (goos = "windows" /\ Len(canon) >= 1 /\ IsUNC(absPath))
        => canon[1].path = SlashForm(absPath)

\* The partitions of the table whose mountpoint is a non-empty string
\* prefix of path and as long as any such mountpoint.
LongestMounts(path, parts) ==
    LET matching == { k \in 1..Len(parts) : /\ Len(parts[k].Mountpoint) > 0
                                           /\ HasPrefix(path, parts[k].Mountpoint) }
    IN  { k \in matching :
            \A l \in matching : Len(parts[l].Mountpoint) <= Len(parts[k].Mountpoint) }

\* The device form of path below mountpoint mp: device ":" relative path,
\* the relative path starting with exactly the slash it needs.
DeviceForm(path, mp, device) ==
    LET rel == SubSeq(path, Len(mp) + 1, Len(path))
    IN  IF Len(rel) > 0 /\ SubSeq(rel, 1, 1) = "/"
          THEN device \o ":" \o rel
          ELSE device \o ":/" \o rel

\* C32: off Windows the path is matched against the mount with the longest
\* mountpoint that is a string prefix of it; it becomes device ":" relative
\* path exactly when that mount's type, lowercased, is nfs, nfs4, cifs,
\* smbfs or afp, and is returned unchanged otherwise.
C32_LongestNetworkMount ==
    (goos # "windows" /\ ~partitions.err /\ Len(canon) >= 1) =>
        LET longest == LongestMounts(absPath, partitions.parts)
        IN  /\ ~canon[1].err
            /\ longest = {} => canon[1].path = absPath
            /\ longest # {} =>
                 \E k \in longest :
                    LET m == partitions.parts[k]
                    IN  canon[1].path =
                          IF ToLower(m.Fstype) \in {"nfs", "nfs4", "cifs", "smbfs", "afp"}
                            THEN DeviceForm(absPath, m.Mountpoint, m.Device)
                            ELSE absPath

\* C32, its cases reached: /mnt/data/sub/x below host:/export mounted on
\* /mnt/data with type nfs4 came back as host:/export:/sub/x.
C32_Witness ==
    /\ goos = "linux"
    /\ absPath = "/mnt/data/sub/x"
    /\ partitions.parts = << Partition("/", "ext4", "/dev/sda1"),
                             Partition("/mnt/data", "nfs4", "host:/export") >>
    /\ Len(canon) >= 1
    /\ canon[1] = [path |-> "host:/export:/sub/x", err |-> FALSE]

\* C33: CanonicalizePath applied to its own result returns that result.
C33_Idempotent ==
    Len(canon) = 2 => canon[2].path = canon[1].path

=============================================================================
